---- MODULE Spec2Model ----
(***************************************************************************)
(* A model of T1wPreprocessing: scripts/run.py (batch driver, per-image    *)
(* pipeline, dataset_description.json bookkeeping), with the command       *)
(* runner shared by scripts/run_hdbet.py and scripts/run_prepare_input.py. *)
(***************************************************************************)
EXTENDS Integers, Sequences, FiniteSets, TLC

(***************************************************************************)
(* Bounds of the model.                                                    *)
(***************************************************************************)
MaxGeneratedBy == 3   \* update_output_dataset is not called once GeneratedBy on disk is this long
MaxDim == 3           \* the largest width and height of a QC slice

(***************************************************************************)
(* Python values.  None is a sentinel string, different from every string  *)
(* the program handles.                                                    *)
(***************************************************************************)
None == "<None>"

\* os.environ.get(key) / os.environ.get(key, default); an environment is a
\* function from the names of the variables that are set to their values.
EnvGet(env, key, default) == IF key \in DOMAIN env THEN env[key] ELSE default

RECURSIVE Join(_)
\* ' '.join(cmd), a command string as the sequence of its words and separators
Join(cmd) ==
    IF Len(cmd) = 0 THEN <<>>
    ELSE IF Len(cmd) = 1 THEN <<cmd[1]>>
    ELSE <<cmd[1], " ">> \o Join(Tail(cmd))

(***************************************************************************)
(* run_command (run.py:236-261, run_hdbet.py:32-57,                        *)
(* run_prepare_input.py:30-55): the three copies are the same code.        *)
(* The external process is an input: its exit code and captured streams.   *)
(* printed is what the call writes to the terminal, in order.              *)
(***************************************************************************)
run_command(cmd, verbose, returncode, stdout, stderr) ==
    LET echo == IF verbose THEN <<"running", "stdout", "stderr", "end">> ELSE <<>>
        diag == IF returncode # 0
                THEN <<"error", "stack">> \o
                     (IF ~verbose THEN <<"stdout", "stderr">> ELSE <<>>)
                ELSE <<>>
    IN  \* the raise statement is inside "if not __verbose__"
        IF returncode # 0 /\ ~verbose
        THEN [exc |-> "PipelineError", cmd_str |-> Join(cmd), stdout |-> stdout,
              stderr |-> stderr, printed |-> echo \o diag]
        ELSE [exc |-> "none", cmd_str |-> Join(cmd), stdout |-> stdout,
              stderr |-> stderr, printed |-> echo \o diag]

(***************************************************************************)
(* dataset_description.json bookkeeping (run.py:26-216).                   *)
(*                                                                         *)
(* A JSON value read from the file is [type, ...]: type is the Python type *)
(* json.load gives it.  A GeneratedBy entry is a dict whose present keys   *)
(* are entry.keys (len(entry) = Cardinality(entry.keys)); a DatasetLinks   *)
(* dict is the set of its <<name, URI>> items.                             *)
(***************************************************************************)
EntryKeys == {"Name", "Version", "CodeURL", "Container"}

NoGeneratedBy == [type |-> "NoneType", items |-> <<>>]
NoDatasetLinks == [type |-> "NoneType", map |-> {}]
NoPaths == [type |-> "NoneType", v |-> <<>>]

\* container_type, run.py:57-62
container_type(env) ==
    IF "APPTAINER_CONTAINER" \in DOMAIN env THEN "apptainer"
    ELSE IF "SINGULARITY_CONTAINER" \in DOMAIN env THEN "singularity"
    ELSE "docker"

\* gen_dict, run.py:64-68
gen_dict(env) ==
    [keys |-> EntryKeys,
     Name |-> "T1wPreprocessing",
     Version |-> EnvGet(env, "DOCKER_IMAGE_VERSION", "unknown"),
     CodeURL |-> EnvGet(env, "GIT_REMOTE", "unknown"),
     Container |-> [Type |-> container_type(env),
                    Tag |-> EnvGet(env, "DOCKER_IMAGE_TAG", "unknown")]]

\* the test of the loop at run.py:52-55 on one entry; "KeyError" when a key
\* it subscripts is missing
SamePipeline(env, gb) ==
    IF "Name" \notin gb.keys THEN "KeyError"
    ELSE IF gb.Name # "T1wPreprocessing" THEN "no"
    ELSE IF "Container" \notin gb.keys THEN "KeyError"
    ELSE IF gb.Container.Tag = EnvGet(env, "DOCKER_IMAGE_TAG", None) THEN "yes"
    ELSE "no"

RECURSIVE ScanGeneratedBy(_, _, _)
\* the loop at run.py:52-55 from entry i on: "yes" at the first entry of this
\* pipeline and tag, "KeyError" if an entry before it lacks a key, else "no"
ScanGeneratedBy(env, items, i) ==
    IF i > Len(items) THEN "no"
    ELSE LET r == SamePipeline(env, items[i])
         IN  IF r = "no" THEN ScanGeneratedBy(env, items, i + 1) ELSE r

\* run.py:26-71.  The value returned is always a list.
_get_generated_by(env, existing_generated_by) ==
    IF existing_generated_by.type = "NoneType"
    THEN [exc |-> "none", value |-> <<gen_dict(env)>>]
    ELSE IF existing_generated_by.type \notin {"dict", "list"}
    THEN [exc |-> "ValueError", value |-> <<>>]
    ELSE LET items == existing_generated_by.items   \* a dict is wrapped in a list
             found == ScanGeneratedBy(env, items, 1)
         IN  IF found = "KeyError" THEN [exc |-> "KeyError", value |-> <<>>]
             ELSE IF found = "yes" THEN [exc |-> "none", value |-> items]
             ELSE [exc |-> "none", value |-> Append(items, gen_dict(env))]

\* os.path.abspath on the dataset paths of the model: two spellings of one
\* directory have one absolute path
AbsPath(path) ==
    CASE path = "d1"   -> "/data/d1"
      [] path = "./d1" -> "/data/d1"
      [] path = "d2"   -> "/data/d2"
      [] path = "d3"   -> "/data/d3"
      [] path = "d4"   -> "/data/d4"
      [] path = "d5"   -> "/data/d5"
      [] OTHER         -> path

\* f"file://{os.path.abspath(dataset_path)}", run.py:145
FileURI(path) == "file://" \o AbsPath(path)

\* run.py:122-147.  datasets[path] is what is on disk at path: status "ok"
\* (dataset_description.json with a Name), "noname" or "nodesc".
_get_single_dataset_link(datasets, dataset_path) ==
    IF datasets[dataset_path].status = "nodesc"
    THEN [exc |-> "FileNotFoundError", Name |-> None, URI |-> None]
    ELSE IF datasets[dataset_path].status = "noname"
    THEN [exc |-> "ValueError", Name |-> None, URI |-> None]
    ELSE [exc |-> "none", Name |-> datasets[dataset_path].Name, URI |-> FileURI(dataset_path)]

\* dict operations on a set of <<key, value>> items
DictHas(d, k) == \E it \in d : it[1] = k
DictGet(d, k) == (CHOOSE it \in d : it[1] = k)[2]
DictSet(d, k, v) == {it \in d : it[1] # k} \cup {<<k, v>>}

RECURSIVE LinkLoop(_, _, _, _)
\* the loop at run.py:105-117 from path i on
LinkLoop(datasets, dataset_links, paths, i) ==
    IF i > Len(paths) THEN [exc |-> "none", value |-> dataset_links]
    ELSE LET path_link == _get_single_dataset_link(datasets, paths[i])
         IN  IF path_link.exc # "none" THEN [exc |-> path_link.exc, value |-> {}]
             ELSE IF DictHas(dataset_links, path_link.Name)
             THEN IF DictGet(dataset_links, path_link.Name) # path_link.URI
                  THEN [exc |-> "ValueError", value |-> {}]
                  ELSE LinkLoop(datasets, dataset_links, paths, i + 1)
             ELSE LinkLoop(datasets, DictSet(dataset_links, path_link.Name, path_link.URI),
                           paths, i + 1)

_get_dataset_links_mut(datasets, existing_dataset_links, dataset_link_paths) ==
    \* the existing links are not copied: the merge starts from an empty dict
    LinkLoop(datasets, {},
             IF dataset_link_paths.type = "NoneType" THEN <<>> ELSE dataset_link_paths.v,
             1)

\* run.py:73-119
_get_dataset_links(datasets, existing_dataset_links, dataset_link_paths) ==
    LinkLoop(datasets,
             IF existing_dataset_links.type = "NoneType" THEN {} ELSE existing_dataset_links.map,
             IF dataset_link_paths.type = "NoneType" THEN <<>> ELSE dataset_link_paths.v,
             1)

\* _get_dataset_links was not called
NotMerged == [exc |-> "not called", value |-> {}]

\* dataset_description.json when it does not exist
AbsentFile ==
    [exists |-> FALSE, format |-> "-", Name |-> None, BIDSVersion |-> None,
     DatasetType |-> None, GeneratedBy |-> NoGeneratedBy, DatasetLinks |-> NoDatasetLinks]

\* len(old_gen_by), run.py:208: the entries of a list, the keys of a dict
PyLen(generated_by) ==
    IF generated_by.type = "dict" THEN Cardinality(generated_by.items[1].keys)
    ELSE Len(generated_by.items)

\* json.dump(..., indent=4, sort_keys=True) of a description, run.py:186-187, 215-216:
\* the bytes written are a function of the content
JsonDump(content) == [content EXCEPT !.exists = TRUE, !.format = "canonical"]

\* The body of the "with" block of update_output_dataset, run.py:178-216, on the
\* file dataset_description.json of the output dataset.  The result names the
\* exception that leaves the function, the file afterwards, whether it was
\* written, and the values of the two merges.
update_output_dataset(env, datasets, file, output_dataset_name, dataset_link_paths) ==
    IF ~file.exists
    THEN LET gb == _get_generated_by(env, NoGeneratedBy)
             links == IF dataset_link_paths.type # "NoneType"
                      THEN _get_dataset_links(datasets, NoDatasetLinks, dataset_link_paths)
                      ELSE NotMerged
         IN  IF links.exc \notin {"none", "not called"}
             THEN [exc |-> links.exc, file |-> file, wrote |-> FALSE,
                   generated_by |-> gb.value, links |-> links]
             ELSE [exc |-> "none", wrote |-> TRUE, generated_by |-> gb.value, links |-> links,
                   file |-> JsonDump([AbsentFile EXCEPT
                              !.Name = output_dataset_name,
                              !.BIDSVersion = "1.10.1",
                              !.DatasetType = "derivative",
                              !.GeneratedBy = [type |-> "list", items |-> gb.value],
                              !.DatasetLinks =
                                  IF dataset_link_paths.type # "NoneType"
                                  THEN [type |-> "dict", map |-> links.value]
                                  ELSE NoDatasetLinks])]
    ELSE IF file.Name = None
    THEN [exc |-> "ValueError", file |-> file, wrote |-> FALSE,
          generated_by |-> <<>>, links |-> NotMerged]
    ELSE LET old_gen_by == file.GeneratedBy
             gb == _get_generated_by(env, old_gen_by)
             old_ds_links == file.DatasetLinks
             links == _get_dataset_links(datasets, old_ds_links, dataset_link_paths)
         IN  IF gb.exc # "none"
             THEN [exc |-> gb.exc, file |-> file, wrote |-> FALSE,
                   generated_by |-> <<>>, links |-> NotMerged]
             ELSE IF links.exc # "none"
             THEN [exc |-> links.exc, file |-> file, wrote |-> FALSE,
                   generated_by |-> gb.value, links |-> links]
             ELSE LET ds_modified ==
                          \/ old_gen_by.type = "NoneType"
                          \/ Len(gb.value) > PyLen(old_gen_by)
                          \/ /\ dataset_link_paths.type # "NoneType"
                             /\ \/ old_ds_links.type = "NoneType"
                                \/ Cardinality(links.value) > Cardinality(old_ds_links.map)
                      output_ds_description ==
                          [file EXCEPT !.GeneratedBy = [type |-> "list", items |-> gb.value],
                                       !.DatasetLinks = [type |-> "dict", map |-> links.value]]
                  IN  [exc |-> "none", wrote |-> ds_modified,
                       generated_by |-> gb.value, links |-> links,
                       file |-> IF ds_modified THEN JsonDump(output_ds_description) ELSE file]

(***************************************************************************)
(* State.                                                                  *)
(***************************************************************************)
VARIABLES
    environ,      \* os.environ of the process
    description,  \* dataset_description.json of the output dataset
    lock_file,    \* t1wpreprocessing_dataset_metadata.lock exists in the output dataset
    call,         \* the function call under study and its arguments
    ret,          \* what that call returned or raised
    \* one invocation of run.py after another on one pair of datasets
    args,                   \* the parsed command line
    input_fs,               \* the input dataset on disk
    output_fs,              \* the per-image files of the output dataset
    writes,                 \* the files of output_fs this invocation wrote
    contents,               \* what run.py put into the files of output_fs it wrote
    pc,                     \* where main is
    exit_status,            \* the exit status, once pc = "done"
    uncaught,               \* the exception that ended main, and where it was raised
    participant_sessions,   \* run.py:587
    pipeline_error_list,    \* run.py:590
    ps_idx,                 \* position of the loop at run.py:635
    t1w_image_file_names,   \* run.py:642
    img_idx,                \* position of the loop at run.py:654
    working_dir,            \* the files of the image's working directory
    output_t1w_image,       \* run.py:690
    output_mask_image,      \* run.py:691
    qc_data,                \* run.py:693
    mask_vol,               \* run.py:714
    tool_calls,             \* the commands invoked for the current image, in order
    invoked,                \* some command was invoked by this invocation of run.py
    qc_verdict,             \* the verdict get_qc_data returned for each image, this invocation
    summary                 \* the error summary printed at run.py:763-772

meta_vars == <<environ, description, lock_file>>
call_vars == <<call, ret>>
loop_vars == <<participant_sessions, pipeline_error_list, ps_idx, t1w_image_file_names, img_idx>>
image_vars == <<working_dir, output_t1w_image, output_mask_image, qc_data, mask_vol,
                tool_calls, qc_verdict>>
main_vars == <<args, input_fs, output_fs, writes, contents, pc, exit_status, uncaught,
               loop_vars, image_vars, invoked, summary>>
vars == <<meta_vars, call_vars, main_vars>>

NoCall == [fn |-> "none"]
NoRet == [exc |-> "not called"]

\* a local variable of main that no statement has assigned yet
\* a rational number, and mask_vol before get_mask_volume has returned
Rational(num, den) == [num |-> num, den |-> den]
NoMaskVol == [volume_ml |-> Rational(0, 1), cmd |-> <<>>, stdout |-> <<>>]
Unbound == [bound |-> "unbound", img |-> None, qc_failure |-> FALSE, cleaned |-> FALSE]
NotRaised == [exc |-> "none", at |-> "-"]
NoSelection == [given |-> FALSE, list |-> <<>>]

\* the locals of main when the process starts
MainStart ==
    /\ writes = {}
    /\ pc = "args"
    /\ exit_status = 0
    /\ uncaught = NotRaised
    /\ participant_sessions = <<>>
    /\ pipeline_error_list = <<>>
    /\ ps_idx = 1
    /\ t1w_image_file_names = <<>>
    /\ img_idx = 1
    /\ working_dir = {}
    /\ output_t1w_image = None
    /\ output_mask_image = None
    /\ qc_data = Unbound
    /\ mask_vol = NoMaskVol
    /\ tool_calls = <<>>
    /\ invoked = FALSE
    /\ qc_verdict = {}
    /\ summary = [printed |-> FALSE, errors |-> <<>>]

\* run.py is not running
MainIdle ==
    /\ MainStart
    /\ args = [participant |-> NoSelection, session |-> NoSelection, device |-> "cpu",
               reset_origin |-> FALSE, trim_neck |-> FALSE, keep_workdir |-> "on_error",
               verbose |-> FALSE]
    /\ input_fs = [description |-> "ok", tree |-> <<>>]
    /\ output_fs = {}
    /\ contents = {}

MetaIdle == environ = <<>> /\ description = AbsentFile /\ lock_file = FALSE
CallIdle == call = NoCall /\ ret = NoRet

(***************************************************************************)
(* SpecMeta: update_output_dataset called again and again on one output    *)
(* dataset, by one process at a time.                                      *)
(***************************************************************************)
\* GeneratedBy entries found in existing descriptions
ThisEntry(tag) ==
    [keys |-> EntryKeys, Name |-> "T1wPreprocessing", Version |-> "unknown",
     CodeURL |-> "unknown", Container |-> [Type |-> "docker", Tag |-> tag]]
OtherEntry ==
    [keys |-> {"Name"}, Name |-> "fMRIPrep", Version |-> None, CodeURL |-> None,
     Container |-> [Type |-> None, Tag |-> None]]
OtherFullEntry ==
    [keys |-> EntryKeys, Name |-> "fMRIPrep", Version |-> "24.0", CodeURL |-> "unknown",
     Container |-> [Type |-> "docker", Tag |-> "v1"]]
BareEntry ==
    [keys |-> {"Name"}, Name |-> "T1wPreprocessing", Version |-> None, CodeURL |-> None,
     Container |-> [Type |-> None, Tag |-> None]]

ExistingGeneratedBy ==
    {NoGeneratedBy, [type |-> "str", items |-> <<>>]}
    \cup {[type |-> "list", items |-> l] :
            l \in {<<>>, <<OtherEntry>>, <<ThisEntry("v1")>>, <<ThisEntry("unknown")>>,
                   <<OtherEntry, ThisEntry("v1")>>, <<BareEntry>>}}
    \cup {[type |-> "dict", items |-> <<e>>] : e \in {OtherEntry, OtherFullEntry, ThisEntry("v1")}}

ExistingDatasetLinks ==
    {NoDatasetLinks}
    \cup {[type |-> "dict", map |-> m] :
            m \in {{}, {<<"A", FileURI("d1")>>}, {<<"A", FileURI("d2")>>},
                   {<<"C", FileURI("d3")>>}}}

\* the datasets a link path can name
LinkedDatasets ==
    [p \in {"d1", "./d1", "d2", "d3", "d4", "d5"} |->
        CASE p \in {"d1", "./d1", "d2"} -> [status |-> "ok", Name |-> "A"]
          [] p = "d3" -> [status |-> "ok", Name |-> "B"]
          [] p = "d4" -> [status |-> "nodesc", Name |-> None]
          [] OTHER    -> [status |-> "noname", Name |-> None]]

PathLists ==
    {NoPaths}
    \cup {[type |-> "list", v |-> l] :
            l \in {<<>>} \cup {<<p>> : p \in DOMAIN LinkedDatasets}
                  \cup {<<"d1", "./d1">>, <<"d1", "d2">>, <<"d3", "d1">>, <<"d3", "d3">>,
                        <<"d3", "d4">>, <<"d5", "d2">>}}

MetaEnvironments ==
    {<<>>,
     [DOCKER_IMAGE_TAG |-> "v1", DOCKER_IMAGE_VERSION |-> "1.0", APPTAINER_CONTAINER |-> "x"],
     [DOCKER_IMAGE_VERSION |-> "1.0", SINGULARITY_CONTAINER |-> "x"]}

InitialDescriptions ==
    {AbsentFile}
    \cup {[exists |-> TRUE, format |-> "foreign", Name |-> n, BIDSVersion |-> "1.8.0",
           DatasetType |-> "derivative", GeneratedBy |-> g, DatasetLinks |-> l] :
            n \in {"out"}, g \in ExistingGeneratedBy, l \in ExistingDatasetLinks}
    \cup {[exists |-> TRUE, format |-> "foreign", Name |-> None, BIDSVersion |-> "1.8.0",
           DatasetType |-> "derivative", GeneratedBy |-> NoGeneratedBy,
           DatasetLinks |-> NoDatasetLinks]}

InitMeta ==
    /\ MainIdle
    /\ environ \in MetaEnvironments
    /\ description \in InitialDescriptions
    /\ lock_file \in BOOLEAN
    /\ call = NoCall
    /\ ret = NoRet

\* One call of update_output_dataset, run.py:150-216.  SoftFileLock waits up to
\* 30 s for the lock file to go away and raises Timeout if it is still there; the
\* "with" statement removes the lock file on every way out of the block.
UpdateOutputDataset(output_dataset_name, dataset_link_paths) ==
    /\ Len(description.GeneratedBy.items) < MaxGeneratedBy
    /\ call' = [fn |-> "update_output_dataset", name |-> output_dataset_name,
                paths |-> dataset_link_paths]
    /\ IF lock_file
       THEN /\ ret' = [exc |-> "Timeout", wrote |-> FALSE,
                       old_ds_links |-> description.DatasetLinks,
                       generated_by |-> <<>>, links |-> NotMerged]
            /\ UNCHANGED description
       ELSE LET r == update_output_dataset(environ, LinkedDatasets, description,
                                           output_dataset_name, dataset_link_paths)
            IN  /\ ret' = [exc |-> r.exc, wrote |-> r.wrote,
                           old_ds_links |-> description.DatasetLinks,
                           generated_by |-> r.generated_by, links |-> r.links]
                /\ description' = r.file
    /\ UNCHANGED <<environ, lock_file, main_vars>>

NextMeta ==
    \E name \in {"out", "A T1w Preprocessed"}, paths \in PathLists :
        UpdateOutputDataset(name, paths)

SpecMeta == InitMeta /\ [][NextMeta]_vars

(***************************************************************************)
(* SpecLock: two processes call update_output_dataset on one output        *)
(* dataset.  call[p] is the call of process p, where it is and what it     *)
(* has read; ret[p] what it returned or raised.  filelock.SoftFileLock     *)
(* creates the lock file with O_CREAT | O_EXCL, polls while the file       *)
(* exists, raises Timeout after 30 s of that, and removes the file when    *)
(* the "with" block is left, normally or by an exception.                  *)
(***************************************************************************)
Procs == {"p1", "p2"}
LockEnvironments == {<<>>, [DOCKER_IMAGE_TAG |-> "v1", DOCKER_IMAGE_VERSION |-> "1.0"]}
LockPathLists == {NoPaths} \cup {[type |-> "list", v |-> <<q>>] : q \in {"d1", "d2", "d3", "d4"}}
LockDescriptions ==
    {AbsentFile}
    \cup {[exists |-> TRUE, format |-> "foreign", Name |-> "out", BIDSVersion |-> "1.8.0",
           DatasetType |-> "derivative", GeneratedBy |-> g[1], DatasetLinks |-> g[2]] :
            g \in {<<[type |-> "list", items |-> <<OtherEntry>>],
                     [type |-> "dict", map |-> {<<"A", FileURI("d1")>>}]>>,
                   <<NoGeneratedBy, [type |-> "dict", map |-> {<<"A", FileURI("d2")>>}]>>,
                   <<[type |-> "dict", items |-> <<OtherFullEntry>>], NoDatasetLinks>>}}
NotReturned == [exc |-> "not called", wrote |-> FALSE, generated_by |-> <<>>, links |-> {},
                after |-> AbsentFile]

InitLock ==
    /\ MainIdle
    /\ environ = <<>>
    /\ description \in LockDescriptions
    /\ lock_file \in BOOLEAN
    /\ call \in [Procs -> {[fn |-> "update_output_dataset", env |-> e, name |-> "out",
                            paths |-> l, pc |-> "start", turn |-> 0, initial |-> description,
                            file |-> AbsentFile] :
                              e \in LockEnvironments, l \in LockPathLists}]
    /\ ret = [p \in Procs |-> NotReturned]

InSection(p) == call[p].pc \in {"locked", "read", "merged"}

Acquire_mut(p) ==
    \* the lock file is not looked at
    /\ call[p].pc = "start"
    /\ lock_file' = TRUE
    /\ call' = [call EXCEPT ![p].pc = "locked",
                            ![p].turn = 1 + Cardinality({q \in Procs : call[q].turn > 0})]
    /\ UNCHANGED <<environ, description, ret, main_vars>>

\* run.py:177, entering the "with": the lock file is created if it is not there
Acquire(p) ==
    /\ call[p].pc = "start"
    /\ ~lock_file
    /\ lock_file' = TRUE
    /\ call' = [call EXCEPT ![p].pc = "locked",
                            ![p].turn = 1 + Cardinality({q \in Procs : call[q].turn > 0})]
    /\ UNCHANGED <<environ, description, ret, main_vars>>

\* run.py:177: the lock file has been there for 30 s
LockTimeout(p) ==
    /\ call[p].pc = "start"
    /\ lock_file
    /\ call' = [call EXCEPT ![p].pc = "raised"]
    /\ ret' = [ret EXCEPT ![p].exc = "Timeout", ![p].after = description]
    /\ UNCHANGED <<environ, description, lock_file, main_vars>>

\* run.py:178 and 189-190: does the file exist, and what does it hold
ReadDescription(p) ==
    /\ call[p].pc = "locked"
    /\ call' = [call EXCEPT ![p].pc = "read", ![p].file = description]
    /\ UNCHANGED <<environ, description, lock_file, ret, main_vars>>

\* run.py:179-187 and 191-216: merge into what was read, and write
MergeAndWrite(p) ==
    /\ call[p].pc = "read"
    /\ LET r == update_output_dataset(call[p].env, LinkedDatasets, call[p].file,
                                      call[p].name, call[p].paths)
       IN  /\ description' = IF r.wrote THEN r.file ELSE description
           /\ ret' = [ret EXCEPT ![p].exc = r.exc, ![p].wrote = r.wrote,
                                 ![p].generated_by = r.generated_by,
                                 ![p].links = r.links.value]
    /\ call' = [call EXCEPT ![p].pc = "merged"]
    /\ UNCHANGED <<environ, lock_file, main_vars>>

Release_mut(p) ==
    \* the lock is released only at the end of the block
    /\ call[p].pc = "merged"
    /\ lock_file' = (ret[p].exc # "none")
    /\ call' = [call EXCEPT ![p].pc = IF ret[p].exc = "none" THEN "returned" ELSE "raised"]
    /\ ret' = [ret EXCEPT ![p].after = description]
    /\ UNCHANGED <<environ, description, main_vars>>

\* run.py:177, leaving the "with", by return or by exception
Release(p) ==
    /\ call[p].pc = "merged"
    /\ lock_file' = FALSE
    /\ call' = [call EXCEPT ![p].pc = IF ret[p].exc = "none" THEN "returned" ELSE "raised"]
    /\ ret' = [ret EXCEPT ![p].after = description]
    /\ UNCHANGED <<environ, description, main_vars>>

NextLock ==
    \E p \in Procs :
        \/ Acquire(p)
        \/ LockTimeout(p)
        \/ ReadDescription(p)
        \/ MergeAndWrite(p)
        \/ Release(p)

SpecLock == InitLock /\ [][NextLock]_vars

(***************************************************************************)
(* The command vectors of run.py, with the files of the working directory  *)
(* under their names.  input_image is the T1w image of the input dataset.  *)
(***************************************************************************)
reoriented_image == "input_reoriented_LPI.nii.gz"
tmp_mask == "hdBetOutput_bet.nii.gz"
tmp_image_trim == "T1wNeckTrim.nii.gz"
tmp_mask_trim == "T1wNeckTrim_mask.nii.gz"
tmp_trim_region_image == "T1wNeckTrim_region.nii.gz"
full_coverage_mask == "full_coverage_mask.nii.gz"
combined_mask == "combined_mask.nii.gz"
color_lut == "color_lut.txt"
qc_sag_slice == "qc_sag_slice.png"
qc_cor_slice == "qc_cor_slice.png"
qc_rgb_slices == "qc_rgb_slices.png"
reset_image == "inputOriginReset.nii.gz"
reset_mask == "inputOriginReset_mask.nii.gz"

\* hdbet_device_settings, run.py:565-569
hdbet_device_settings(device) ==
    IF device = "cpu" THEN <<"-device", "cpu", "--disable_tta">> ELSE <<"-device", device>>

\* run.py:431
cmd_swapdim(input_image) == <<"c3d", input_image, "-swapdim", "LPI", "-o", reoriented_image>>
\* run.py:440-441
cmd_hd_bet(device_settings) ==
    <<"hd-bet", "-i", reoriented_image, "-o", "hdBetOutput.nii.gz", "--no_bet_image",
      "--save_bet_mask", "--verbose">> \o device_settings
\* run.py:468-469
cmd_trim_neck(input_image) ==
    <<"trim_neck.sh", "-d", "-c", "20", "-w", "working_dir", "-m", tmp_trim_region_image,
      input_image, tmp_image_trim>>
\* run.py:472-474
cmd_pad(input_mask) ==
    <<"c3d", tmp_image_trim, "-pad", "10x10x10mm", "10x10x10mm", "0", "-o", tmp_image_trim,
      "-interpolation", "NearestNeighbor", input_mask, "-reslice-identity", "-type", "uchar",
      "-o", tmp_mask_trim>>
\* run.py:343
cmd_thresh(full_coverage_t1w) ==
    <<"c3d", full_coverage_t1w, "-thresh", "0", "0", "1", "1", "-o", full_coverage_mask>>
\* run.py:348
cmd_combine(brain_mask, trim_region_mask) ==
    <<"c3d", brain_mask, "-scale", "2", trim_region_mask, "-add", "-o", combined_mask>>
\* run.py:354
cmd_lstat == <<"c3d", combined_mask, "-dup", "-lstat">>
\* run.py:395-402, the slicing and overlay options left out
cmd_slices(full_coverage_t1w) ==
    <<"c3d", "-type", "uchar", full_coverage_t1w, combined_mask, "-oli", color_lut, "1",
      "-omc", qc_sag_slice, "-oli", color_lut, "1", "-omc", qc_cor_slice>>
\* run.py:274
cmd_centroid(input_mask) == <<"c3d", input_mask, "-centroid">>
\* run.py:287-288
cmd_origin(input_image, input_mask, centroid_str) ==
    <<"c3d", input_image, "-origin-voxel", centroid_str, "-o", reset_image,
      input_mask, "-origin-voxel", centroid_str, "-type", "uchar", "-o", reset_mask>>
\* run.py:486
cmd_volume(mask_image) == <<"c3d", mask_image, "-voxel-integral">>

(***************************************************************************)
(* SpecCmd: run_command on each command vector, verbose or not, with every *)
(* exit code and streams the process may give.                             *)
(***************************************************************************)
Commands ==
    {cmd_swapdim("sub-01_T1w.nii.gz"),
     cmd_hd_bet(hdbet_device_settings("cuda")), cmd_hd_bet(hdbet_device_settings("cpu")),
     cmd_trim_neck(reoriented_image), cmd_pad(tmp_mask),
     cmd_thresh(reoriented_image), cmd_combine(tmp_mask, full_coverage_mask), cmd_lstat,
     cmd_slices(reoriented_image), cmd_centroid(tmp_mask),
     cmd_origin(reoriented_image, tmp_mask, "1.0x2.0x3.0vox"), cmd_volume(tmp_mask)}
ExitCodes == {0, 1, 2, 127, -9}
Streams == {<<>>, <<"text">>}

InitCmd ==
    /\ MetaIdle
    /\ MainIdle
    /\ call \in {[fn |-> "run_command", cmd |-> c, verbose |-> v] :
                    c \in Commands, v \in BOOLEAN}
    /\ ret = NoRet

RunCommand(returncode, stdout, stderr) ==
    /\ call.fn = "run_command"
    /\ ret = NoRet
    /\ ret' = [returncode |-> returncode, stdout |-> stdout, stderr |-> stderr,
               exc |-> run_command(call.cmd, call.verbose, returncode, stdout, stderr).exc,
               result |-> run_command(call.cmd, call.verbose, returncode, stdout, stderr)]
    /\ UNCHANGED <<call, meta_vars, main_vars>>

NextCmd ==
    \E returncode \in ExitCodes, stdout \in Streams, stderr \in Streams :
        RunCommand(returncode, stdout, stderr)

SpecCmd == InitCmd /\ [][NextCmd]_vars

(***************************************************************************)
(* The pipeline stages of run.py.  A stage works on the files of the       *)
(* working directory (wd, the set of the names that exist) through         *)
(* run_command; st = [exc, wd, calls, stdout] is the stage so far: the      *)
(* exception on its way out, the working directory, the commands invoked   *)
(* and the stdout of the last one.                                         *)
(***************************************************************************)

\* The exit code of a tool: a tool whose input file is missing does not exit 0.
ExitCode(wd, inputs, rc) ==
    IF inputs \subseteq wd THEN rc ELSE IF rc = 0 THEN 1 ELSE rc

\* result = run_command(cmd) inside a stage: nothing happens once an exception
\* is on its way out; a tool that exits 0 has written its output files.
Invoke(st, verbose, op, cmd, inputs, outputs, rc, stdout) ==
    IF st.exc # "none" THEN st
    ELSE LET code == ExitCode(st.wd, inputs, rc)
             result == run_command(cmd, verbose, code, stdout, <<>>)
         IN  [exc |-> result.exc,
              wd |-> IF code = 0 THEN st.wd \cup outputs ELSE st.wd,
              calls |-> Append(st.calls, op),
              stdout |-> result.stdout]

StageStart(wd) == [exc |-> "none", wd |-> wd, calls |-> <<>>, stdout |-> <<>>]

(***************************************************************************)
(* Text: a string is the sequence of its characters.                       *)
(***************************************************************************)
RECURSIVE SplitLines(_)
\* str.splitlines()
SplitLines(text) ==
    IF Len(text) = 0 THEN <<>>
    ELSE LET nl == {i \in 1..Len(text) : text[i] = "\n"}
         IN  IF nl = {} THEN <<text>>
             ELSE LET k == CHOOSE i \in nl : \A j \in nl : i <= j
                  IN  <<SubSeq(text, 1, k - 1)>> \o SplitLines(SubSeq(text, k + 1, Len(text)))

RECURSIVE LStrip(_)
LStrip_mut(line) == line   \* the line is not stripped

\* str.lstrip()
LStrip(line) ==
    IF Len(line) > 0 /\ line[1] \in {" ", "\t"} THEN LStrip(Tail(line)) ELSE line

\* str.startswith(c) for a one-character c
StartsWith(line, c) == Len(line) > 0 /\ line[1] = c

Digit(k) == CASE k = 0 -> "0" [] k = 1 -> "1" [] k = 2 -> "2" [] k = 3 -> "3" [] OTHER -> "9"

RECURSIVE LstatRows(_, _)
\* What "c3d <labels> -dup -lstat" prints for a volume whose labels are the set
\* labels: a header line, then one right-aligned row per label in increasing
\* order, starting with the label and its mean (the label itself).
LstatRows(labels, k) ==
    IF k > 3 THEN <<>>
    ELSE (IF k \in labels
          THEN <<" ", " ", " ", " ", Digit(k), " ", " ", Digit(k), ".", "0", "\n">>
          ELSE <<>>) \o LstatRows(labels, k + 1)
LstatReport(labels) == <<"L", "a", "b", "e", "l", "I", "D", " ", "M", "e", "a", "n", "\n">>
                       \o LstatRows(labels, 0)

\* tile_images, run.py:293-322, as far as files go: Image.open raises
\* FileNotFoundError on a missing slice, else the tiled PNG is saved
tile_files(st, image_files, output_path) ==
    IF st.exc # "none" THEN st
    ELSE IF image_files \subseteq st.wd THEN [st EXCEPT !.wd = @ \cup {output_path}]
    ELSE [st EXCEPT !.exc = "FileNotFoundError"]

\* get_qc_data, run.py:337-407.  rc gives the exit code of each tool, labels
\* the labels of the combined volume, errout what a failed lstat printed.
get_qc_data(verbose, wd, full_coverage_t1w, brain_mask, trim_region_mask_arg, rc, labels, errout) ==
    LET s0 == StageStart(wd)
        s1 == IF trim_region_mask_arg = None
              THEN Invoke(s0, verbose, "thresh", cmd_thresh(full_coverage_t1w),
                          {full_coverage_t1w}, {full_coverage_mask}, rc["thresh"], <<>>)
              ELSE s0
        trim_region_mask == IF trim_region_mask_arg = None THEN full_coverage_mask
                            ELSE trim_region_mask_arg
        s2 == Invoke(s1, verbose, "combine", cmd_combine(brain_mask, trim_region_mask),
                     {brain_mask, trim_region_mask}, {combined_mask}, rc["combine"], <<>>)
        lstat_code == ExitCode(s2.wd, {combined_mask}, rc["lstat"])
        s3 == Invoke(s2, verbose, "lstat", cmd_lstat, {combined_mask}, {}, rc["lstat"],
                     IF lstat_code = 0 THEN LstatReport(labels) ELSE errout)
        lines == SplitLines(s3.stdout)
        lstats == [i \in 1..Len(lines) |-> LStrip(lines[i])]
        label2_found == \E i \in 1..Len(lstats) : StartsWith(lstats[i], "2")
        label3_found == \E i \in 1..Len(lstats) : StartsWith(lstats[i], "3")
        qc_failure == label2_found \/ ~label3_found
        s4 == IF s3.exc # "none" THEN s3 ELSE [s3 EXCEPT !.wd = @ \cup {color_lut}]
        s5 == Invoke(s4, verbose, "slices", cmd_slices(full_coverage_t1w),
                     {full_coverage_t1w, combined_mask, color_lut},
                     {qc_sag_slice, qc_cor_slice}, rc["slices"], <<>>)
        s6 == tile_files(s5, {qc_sag_slice, qc_cor_slice}, qc_rgb_slices)
    IN  [exc |-> s6.exc, wd |-> s6.wd, calls |-> s6.calls,
         qc_rgb_png |-> qc_rgb_slices,
         qc_failure |-> IF s6.exc = "none" THEN qc_failure ELSE FALSE,
         reasons |-> IF s3.exc # "none" THEN {}
                     ELSE (IF label2_found THEN {"outside trimmed region"} ELSE {})
                          \cup (IF ~label3_found THEN {"no brain voxels"} ELSE {}),
         lstat_code |-> IF s2.exc = "none" THEN lstat_code ELSE 0 - 1]

\* run_hdbet, run.py:424-445
run_hdbet(verbose, wd, input_image, device_settings, rc) ==
    LET s1 == Invoke(StageStart(wd), verbose, "swapdim", cmd_swapdim(input_image),
                     {}, {reoriented_image}, rc["swapdim"], <<>>)
        s2 == Invoke(s1, verbose, "hd-bet", cmd_hd_bet(device_settings),
                     {reoriented_image}, {tmp_mask}, rc["hd-bet"], <<>>)
    IN  [exc |-> s2.exc, wd |-> s2.wd, calls |-> s2.calls,
         reoriented_image |-> reoriented_image, mask |-> tmp_mask]

\* trim_neck, run.py:459-476
trim_neck(verbose, wd, input_image, input_mask, rc) ==
    LET s1 == Invoke(StageStart(wd), verbose, "trim_neck.sh", cmd_trim_neck(input_image),
                     {input_image}, {tmp_trim_region_image, tmp_image_trim},
                     rc["trim_neck.sh"], <<>>)
        s2 == Invoke(s1, verbose, "pad", cmd_pad(input_mask),
                     {tmp_image_trim, input_mask}, {tmp_image_trim, tmp_mask_trim},
                     rc["pad"], <<>>)
    IN  [exc |-> s2.exc, wd |-> s2.wd, calls |-> s2.calls,
         output_image |-> tmp_image_trim, output_mask |-> tmp_mask_trim,
         trim_region_input_space |-> tmp_trim_region_image]

\* The words of the stdout of "c3d <mask> -centroid"; re.search at run.py:275-277
\* finds CENTROID_VOX [a, b, c] anywhere in it, a, b and c made of digits, dots
\* and minus signs.
NumberWords == {"12.0", "34.5", "7.8"}
CentroidMatch(words) ==
    \E i \in 1..Len(words) :
        /\ i + 7 <= Len(words)
        /\ words[i] = "CENTROID_VOX" /\ words[i + 1] = "["
        /\ words[i + 2] \in NumberWords /\ words[i + 3] = ","
        /\ words[i + 4] \in NumberWords /\ words[i + 5] = ","
        /\ words[i + 6] \in NumberWords /\ words[i + 7] = "]"
CentroidStr(words) ==
    LET i == CHOOSE j \in 1..Len(words) : words[j] = "CENTROID_VOX"
    IN  words[i + 2] \o "x" \o words[i + 4] \o "x" \o words[i + 6] \o "vox"

\* reset_origin, run.py:267-290; centroid_out is the stdout of the centroid command
reset_origin(verbose, wd, input_image, input_mask, rc, centroid_out) ==
    LET s1 == Invoke(StageStart(wd), verbose, "centroid", cmd_centroid(input_mask),
                     {input_mask}, {}, rc["centroid"], centroid_out)
        match == CentroidMatch(s1.stdout)
        s2 == IF s1.exc = "none" /\ ~match THEN [s1 EXCEPT !.exc = "PipelineError"] ELSE s1
        s3 == Invoke(s2, verbose, "origin",
                     cmd_origin(input_image, input_mask,
                                IF match THEN CentroidStr(s1.stdout) ELSE "vox"),
                     {input_image, input_mask}, {reset_image, reset_mask}, rc["origin"], <<>>)
    IN  [exc |-> s3.exc, wd |-> s3.wd, calls |-> s3.calls,
         output_image |-> reset_image, output_mask |-> reset_mask]

\* float(word) on the words a voxel-integral report may hold; -1 for ValueError
FloatOf(word) ==
    CASE word = "1500" -> 1500
      [] word = "3000" -> 3000
      [] word = "0"    -> 0
      [] word = "1.14778e+07" -> 11477800
      [] OTHER         -> 0 - 1

get_mask_volume_mut(verbose, wd, mask_image, rc, out) ==
    \* the integral is not converted to ml
    LET s1 == Invoke(StageStart(wd), verbose, "voxel-integral", cmd_volume(mask_image),
                     {mask_image}, {}, rc, out)
        parse == IF Len(s1.stdout) = 0 THEN "IndexError"
                 ELSE IF Len(s1.stdout[1]) < 3 THEN "IndexError"
                 ELSE IF FloatOf(s1.stdout[1][3]) < 0 THEN "ValueError"
                 ELSE "none"
        volume == IF parse = "none" THEN FloatOf(s1.stdout[1][3]) ELSE 0
    IN  [exc |-> IF s1.exc # "none" THEN s1.exc ELSE parse,
         wd |-> s1.wd, calls |-> s1.calls, cmd |-> cmd_volume(mask_image),
         volume_ml |-> Rational(volume, 1)]

\* get_mask_volume, run.py:484-495; out is the stdout of the command, a list of
\* lines, each the list of its words
get_mask_volume(verbose, wd, mask_image, rc, out) ==
    LET s1 == Invoke(StageStart(wd), verbose, "voxel-integral", cmd_volume(mask_image),
                     {mask_image}, {}, rc, out)
        parse == IF Len(s1.stdout) = 0 THEN "IndexError"
                 ELSE IF Len(s1.stdout[1]) < 3 THEN "IndexError"
                 ELSE IF FloatOf(s1.stdout[1][3]) < 0 THEN "ValueError"
                 ELSE "none"
        volume == IF parse = "none" THEN FloatOf(s1.stdout[1][3]) ELSE 0
    IN  [exc |-> IF s1.exc # "none" THEN s1.exc ELSE parse,
         wd |-> s1.wd, calls |-> s1.calls, cmd |-> cmd_volume(mask_image),
         volume_ml |-> Rational(volume, 1000)]

(***************************************************************************)
(* SpecTile: tile_images on two slices.  An image is its size and its      *)
(* pixels, px[<<x, y>>] for 0 <= x < width, 0 <= y < height, y growing      *)
(* downwards as in PIL; a colour is an RGB triple.                         *)
(***************************************************************************)
black == <<0, 0, 0>>
Pixels(w, h) == (0..(w - 1)) \X (0..(h - 1))

\* Image.new('RGB', (w, h), color)
ImageNew(w, h, color) == [width |-> w, height |-> h, px |-> [xy \in Pixels(w, h) |-> color]]

\* base.paste(img, (ox, oy)): the pixels of img replace those of base in the
\* box at (ox, oy), clipped to base
ImagePaste(base, img, ox, oy) ==
    [base EXCEPT !.px =
        [xy \in DOMAIN base.px |->
            IF /\ xy[1] - ox \in 0..(img.width - 1)
               /\ xy[2] - oy \in 0..(img.height - 1)
            THEN img.px[<<xy[1] - ox, xy[2] - oy>>]
            ELSE base.px[xy]]]

MaxOf(S) == CHOOSE n \in S : \A k \in S : k <= n

RECURSIVE SumWidth(_)
SumWidth(imgs) == IF imgs = <<>> THEN 0 ELSE imgs[1].width + SumWidth(Tail(imgs))

RECURSIVE StitchLoop(_, _, _)
\* the loop at run.py:316-318
StitchLoop(stitched, imgs, current_width) ==
    IF imgs = <<>> THEN stitched
    ELSE StitchLoop(ImagePaste(stitched, imgs[1], current_width, 0), Tail(imgs),
                    current_width + imgs[1].width)

tile_images_mut(images) ==
    \* the shorter slice is enlarged into a frame that is never filled with it
    LET max_height == MaxOf({images[i].height : i \in DOMAIN images})
        zero_filled_images ==
            [i \in DOMAIN images |-> ImageNew(images[i].width, max_height, images[i].px[<<0, 0>>])]
        total_width == SumWidth(zero_filled_images)
        stitched == ImageNew(total_width, max_height, black)
    IN  StitchLoop(stitched, zero_filled_images, 0)

\* tile_images, run.py:293-322, on the opened images; the result is what
\* stitched.save writes
tile_images(images) ==
    LET max_height == MaxOf({images[i].height : i \in DOMAIN images})
        zero_filled_images ==
            [i \in DOMAIN images |->
                ImagePaste(ImageNew(images[i].width, max_height, black), images[i],
                           0, max_height - images[i].height)]
        total_width == SumWidth(zero_filled_images)
        stitched == ImageNew(total_width, max_height, black)
    IN  StitchLoop(stitched, zero_filled_images, 0)

\* the slices: every pixel of slice i its own colour, or a slice all black
Slices(i) ==
    {[width |-> w, height |-> h,
      px |-> [xy \in Pixels(w, h) |-> IF dark THEN black ELSE <<i, xy[1] + 1, xy[2] + 1>>]] :
        w \in 1..MaxDim, h \in 1..MaxDim, dark \in BOOLEAN}

InitTile ==
    /\ MetaIdle
    /\ MainIdle
    /\ call \in {[fn |-> "tile_images", image_files |-> <<a, b>>] : a \in Slices(1), b \in Slices(2)}
    /\ ret = NoRet

TileImages ==
    /\ call.fn = "tile_images"
    /\ ret = NoRet
    /\ ret' = [exc |-> "none", saved |-> tile_images(call.image_files)]
    /\ UNCHANGED <<call, meta_vars, main_vars>>

NextTile == TileImages

SpecTile == InitTile /\ [][NextTile]_vars

(***************************************************************************)
(* SpecQC: get_qc_data on working directories as run_hdbet and trim_neck   *)
(* leave them, for every set of labels of the combined volume.             *)
(***************************************************************************)
QcExitCodes == [{"thresh", "combine", "lstat", "slices"} -> {0, 1}]

InitQC ==
    /\ MetaIdle
    /\ MainIdle
    /\ call \in {[fn |-> "get_qc_data", verbose |-> v, trim_neck |-> t, labels |-> l, wd |-> w] :
                    v \in BOOLEAN, t \in BOOLEAN, l \in SUBSET (0..3),
                    w \in {{reoriented_image, tmp_mask}, {reoriented_image}}}
    /\ ret = NoRet

GetQcData(rc, errout) ==
    /\ call.fn = "get_qc_data"
    /\ ret = NoRet
    /\ ret' = get_qc_data(call.verbose,
                          IF call.trim_neck
                          THEN call.wd \cup {tmp_image_trim, tmp_mask_trim, tmp_trim_region_image}
                          ELSE call.wd,
                          reoriented_image, tmp_mask,
                          IF call.trim_neck THEN tmp_trim_region_image ELSE None,
                          rc, call.labels, errout)
    /\ UNCHANGED <<call, meta_vars, main_vars>>

NextQC ==
    \E rc \in QcExitCodes, errout \in {<<>>, LstatReport({0, 1})} : GetQcData(rc, errout)

SpecQC == InitQC /\ [][NextQC]_vars

(***************************************************************************)
(* Spec: run.py, invoked again and again on one input dataset and one      *)
(* output dataset with the same command line.                              *)
(*                                                                         *)
(* The input dataset has participants 01 and 02, each with at most the     *)
(* session MR1; sub-01/ses-MR1/anat holds two T1w images and               *)
(* sub-02/ses-MR1/anat one.  input_fs.tree[p] says how much of that is on  *)
(* disk: "missing" (no sub-<p>), "nosess" (no ses-* directory), "noanat"   *)
(* (no anat directory), "empty" (no *_T1w.nii.gz) or "ok".                 *)
(***************************************************************************)
Participants == {"01", "02"}
Statuses == {"missing", "nosess", "noanat", "empty", "ok"}
T1wSuffix == "_T1w.nii.gz"
KnownEntities == {"sub-01_ses-MR1_run-1", "sub-01_ses-MR1_run-2", "sub-02_ses-MR1"}
ImageNames(p) ==
    IF p = "01"
    THEN <<"sub-01_ses-MR1_run-1" \o T1wSuffix, "sub-01_ses-MR1_run-2" \o T1wSuffix>>
    ELSE <<"sub-02_ses-MR1" \o T1wSuffix>>

\* re.match('(.*)_T1w\.nii\.gz$', name).group(1), run.py:656-658
Entities(name) == CHOOSE e \in KnownEntities : e \o T1wSuffix = name

input_dataset_dir == "d1"
input_dataset_name == "A"
\* what _get_single_dataset_link finds at the input dataset, whose description
\* run.py:623-626 has read by then
InputDatasets == [p \in {input_dataset_dir} |-> [status |-> "ok", Name |-> input_dataset_name]]

\* the loop variables of the iteration main is in
participant == participant_sessions[ps_idx][1]
sess == participant_sessions[ps_idx][2]
t1w_image_file_name == t1w_image_file_names[img_idx]
t1w_source_entities == Entities(t1w_image_file_name)
AnatDir(p, s) == "sub-" \o p \o "/ses-" \o s \o "/anat"
output_anat_dir == AnatDir(participant, sess)
t1w_ds_rel_path == output_anat_dir \o "/" \o t1w_image_file_name
OutFile(dir, entities, suffix) == dir \o "/" \o entities \o suffix
output_t1w_full_path == OutFile(output_anat_dir, t1w_source_entities, "_desc-preproc_T1w.nii.gz")
output_mask_full_path == OutFile(output_anat_dir, t1w_source_entities, "_desc-brain_mask.nii.gz")
output_t1w_sidecar_full_path == OutFile(output_anat_dir, t1w_source_entities, "_desc-preproc_T1w.json")
output_mask_sidecar_full_path == OutFile(output_anat_dir, t1w_source_entities, "_desc-brain_mask.json")
output_qc_image == OutFile(output_anat_dir, t1w_source_entities, "_desc-qcslice_rgb.png")
output_working_dir == output_anat_dir \o "/workdir"

\* sys.exit(code), and an exception that nothing catches: Python prints the
\* traceback and exits with status 1
Exit(code) == pc' = "done" /\ exit_status' = code /\ uncaught' = NotRaised
Crash(e) == pc' = "done" /\ exit_status' = 1 /\ uncaught' = [exc |-> e, at |-> pc]
Goto(next) == pc' = next /\ UNCHANGED <<exit_status, uncaught>>

\* run.py:555-581
CheckArgs ==
    /\ pc = "args"
    /\ IF args.device = "cuda" /\ EnvGet(environ, "CUDA_VISIBLE_DEVICES", "") = ""
       THEN Exit(1)
       ELSE IF ~args.participant.given /\ ~args.session.given THEN Exit(1)
       ELSE IF args.participant.given /\ args.session.given THEN Exit(1)
       ELSE Goto("enumerate")
    /\ UNCHANGED <<meta_vars, call_vars, args, input_fs, output_fs, writes, contents,
                   loop_vars, image_vars, invoked, summary>>

RECURSIVE ScanParticipants(_, _, _, _)
\* the loop at run.py:599-610 from participant i on
ScanParticipants(tree, participants, i, acc) ==
    IF i > Len(participants) THEN acc
    ELSE LET p == participants[i]
         IN  IF tree[p] = "missing"      \* FileNotFoundError: a message is printed
             THEN ScanParticipants(tree, participants, i + 1, acc)
             ELSE IF tree[p] = "nosess"
             THEN ScanParticipants(tree, participants, i + 1,
                      [acc EXCEPT !.errors = Append(@, "sub-" \o p)])
             ELSE ScanParticipants(tree, participants, i + 1,
                      [acc EXCEPT !.sessions = Append(@, <<p, "MR1">>)])

\* run.py:584-616
Enumerate ==
    /\ pc = "enumerate"
    /\ IF args.participant.given
       THEN LET r == ScanParticipants(input_fs.tree, args.participant.list, 1,
                                      [sessions |-> <<>>, errors |-> <<>>])
            IN  /\ participant_sessions' = r.sessions
                /\ pipeline_error_list' = r.errors
       ELSE /\ participant_sessions' = args.session.list
            /\ pipeline_error_list' = <<>>
    /\ Goto("metadata")
    /\ UNCHANGED <<meta_vars, call_vars, args, input_fs, output_fs, writes, contents, ps_idx,
                   t1w_image_file_names, img_idx, image_vars, invoked, summary>>

\* run.py:618-633
UpdateMetadata ==
    /\ pc = "metadata"
    /\ IF input_fs.description = "nodesc" THEN Crash("FileNotFoundError") /\ UNCHANGED description
       ELSE IF input_fs.description = "noname" THEN Crash("KeyError") /\ UNCHANGED description
       ELSE IF lock_file THEN Crash("Timeout") /\ UNCHANGED description
       ELSE LET r == update_output_dataset(environ, InputDatasets, description,
                                           input_dataset_name \o " T1w Preprocessed",
                                           [type |-> "list", v |-> <<input_dataset_dir>>])
            IN  IF r.exc # "none" THEN Crash(r.exc) /\ UNCHANGED description
                ELSE Goto("session") /\ description' = r.file
    /\ UNCHANGED <<environ, lock_file, call_vars, args, input_fs, output_fs, writes, contents,
                   loop_vars, image_vars, invoked, summary>>

\* the head of the loop at run.py:635, and run.py:637-652
NextSession ==
    /\ pc = "session"
    /\ IF ps_idx > Len(participant_sessions)
       THEN Goto("summary")
            /\ UNCHANGED <<pipeline_error_list, ps_idx, t1w_image_file_names, img_idx>>
       ELSE IF Len(participant_sessions[ps_idx]) # 2     \* "for participant,sess in"
       THEN Crash("ValueError")
            /\ UNCHANGED <<pipeline_error_list, ps_idx, t1w_image_file_names, img_idx>>
       ELSE IF input_fs.tree[participant] \in {"missing", "nosess", "noanat", "empty"}
       THEN /\ pipeline_error_list' =
                    Append(pipeline_error_list, "sub-" \o participant \o "/ses-" \o sess)
            /\ ps_idx' = ps_idx + 1
            /\ Goto("session")
            /\ UNCHANGED <<t1w_image_file_names, img_idx>>
       ELSE /\ t1w_image_file_names' = ImageNames(participant)
            /\ img_idx' = 1
            /\ Goto("image")
            /\ UNCHANGED <<pipeline_error_list, ps_idx>>
    /\ UNCHANGED <<meta_vars, call_vars, args, input_fs, output_fs, writes, contents,
                   participant_sessions,
                   image_vars, invoked, summary>>

NextImage_mut ==
    \* the check for an existing mask left out
    /\ pc = "image"
    /\ IF img_idx > Len(t1w_image_file_names)
       THEN /\ ps_idx' = ps_idx + 1
            /\ Goto("session")
            /\ UNCHANGED <<img_idx, working_dir, tool_calls>>
       ELSE /\ working_dir' = {}
            /\ tool_calls' = <<>>
            /\ Goto("run_hdbet")
            /\ UNCHANGED <<ps_idx, img_idx>>
    /\ UNCHANGED <<meta_vars, call_vars, args, input_fs, output_fs, writes, contents,
                   participant_sessions,
                   pipeline_error_list, t1w_image_file_names, output_t1w_image,
                   output_mask_image, qc_data, mask_vol, qc_verdict, invoked, summary>>

\* the head of the loop at run.py:654, and run.py:656-685: a new working
\* directory, and the image is skipped if its output mask exists
NextImage ==
    /\ pc = "image"
    /\ IF img_idx > Len(t1w_image_file_names)
       THEN /\ ps_idx' = ps_idx + 1
            /\ Goto("session")
            /\ UNCHANGED <<img_idx, working_dir, tool_calls>>
       ELSE /\ working_dir' = {}
            /\ tool_calls' = <<>>
            /\ IF output_mask_full_path \in output_fs
               THEN img_idx' = img_idx + 1 /\ Goto("image") /\ UNCHANGED ps_idx
               ELSE Goto("run_hdbet") /\ UNCHANGED <<ps_idx, img_idx>>
    /\ UNCHANGED <<meta_vars, call_vars, args, input_fs, output_fs, writes, contents,
                   participant_sessions,
                   pipeline_error_list, t1w_image_file_names, output_t1w_image,
                   output_mask_image, qc_data, mask_vol, qc_verdict, invoked, summary>>

\* what every step inside the try block of run.py:687-714 leaves alone
StageFrame == UNCHANGED <<meta_vars, call_vars, args, input_fs, output_fs, writes, contents, loop_vars,
                          summary>>

AfterStage_mut(r, next) ==
    \* the invocations of the stage are recorded ahead of the earlier ones
    /\ working_dir' = r.wd
    /\ tool_calls' = r.calls \o tool_calls
    /\ invoked' = (invoked \/ Len(r.calls) > 0)
    /\ IF r.exc = "none" THEN Goto(next)
       ELSE IF r.exc = "PipelineError" THEN Goto("except")
       ELSE Crash(r.exc)

\* A stage has returned or raised: its files and its tool invocations are
\* there; PipelineError goes to the handler at run.py:715, any other exception
\* leaves main.
AfterStage(r, next) ==
    /\ working_dir' = r.wd
    /\ tool_calls' = tool_calls \o r.calls
    /\ invoked' = (invoked \/ Len(r.calls) > 0)
    /\ IF r.exc = "none" THEN Goto(next)
       ELSE IF r.exc = "PipelineError" THEN Goto("except")
       ELSE Crash(r.exc)

HdbetExitCodes == [{"swapdim", "hd-bet"} -> {0, 1}]
TrimExitCodes == [{"trim_neck.sh", "pad"} -> {0, 1}]
OriginExitCodes == [{"centroid", "origin"} -> {0, 1}]
\* what the combined brain / trim-region volume holds: brain inside the trimmed
\* region, brain outside of it as well, no brain at all
LabelSets == {{0, 1, 3}, {0, 1, 2, 3}, {0, 1}}
CentroidOutputs == {<<"CENTROID_VOX", "[", "12.0", ",", "34.5", ",", "7.8", "]">>, <<>>}
\* "Voxel Integral: <mm^3>" as c3d prints it
VolumeReport(word) == << <<"Voxel", "Integral:", word>> >>
VolumeOutputs ==
    {VolumeReport("0"), VolumeReport("1500"), VolumeReport("3000"), VolumeReport("-"), <<>>}

\* run.py:688-693
RunHdbet(rc) ==
    /\ pc = "run_hdbet"
    /\ LET hdbet_results == run_hdbet(args.verbose, working_dir, t1w_ds_rel_path,
                                      hdbet_device_settings(args.device), rc)
       IN  /\ AfterStage(hdbet_results, IF args.trim_neck THEN "trim_neck" ELSE "get_qc_data")
           /\ IF hdbet_results.exc = "none"
              THEN /\ output_t1w_image' = hdbet_results.reoriented_image
                   /\ output_mask_image' = hdbet_results.mask
                   /\ qc_data' = [bound |-> "None", img |-> None, qc_failure |-> FALSE,
                                  cleaned |-> FALSE]
              ELSE UNCHANGED <<output_t1w_image, output_mask_image, qc_data>>
    /\ UNCHANGED <<mask_vol, qc_verdict>>
    /\ StageFrame

\* run.py:696-698
TrimNeck(rc) ==
    /\ pc = "trim_neck"
    /\ LET trim_results == trim_neck(args.verbose, working_dir, reoriented_image, tmp_mask, rc)
       IN  /\ AfterStage(trim_results, "get_qc_data")
           /\ IF trim_results.exc = "none"
              THEN /\ output_t1w_image' = trim_results.output_image
                   /\ output_mask_image' = trim_results.output_mask
              ELSE UNCHANGED <<output_t1w_image, output_mask_image>>
    /\ UNCHANGED <<qc_data, mask_vol, qc_verdict>>
    /\ StageFrame

\* run.py:700-703; qc_verdict keeps what get_qc_data returned for the image
GetQcDataStep(rc, labels) ==
    /\ pc = "get_qc_data"
    /\ LET r == IF args.trim_neck
                THEN get_qc_data(args.verbose, working_dir, reoriented_image, tmp_mask,
                                 tmp_trim_region_image, rc, labels, <<>>)
                ELSE get_qc_data(args.verbose, working_dir, output_t1w_image,
                                 output_mask_image, None, rc, labels, <<>>)
       IN  /\ AfterStage(r, IF args.reset_origin THEN "reset_origin" ELSE "qc_gate")
           /\ IF r.exc = "none"
              THEN /\ qc_data' = [bound |-> "dict", img |-> t1w_source_entities,
                                  qc_failure |-> r.qc_failure, cleaned |-> FALSE]
                   /\ qc_verdict' = qc_verdict \cup
                          {<<t1w_source_entities, IF r.qc_failure THEN "fail" ELSE "pass">>}
              ELSE UNCHANGED <<qc_data, qc_verdict>>
    /\ UNCHANGED <<output_t1w_image, output_mask_image, mask_vol>>
    /\ StageFrame

ResetOrigin_mut(rc, centroid_out) ==
    \* only the image is taken from what reset_origin returned
    /\ pc = "reset_origin"
    /\ LET reset_origin_results == reset_origin(args.verbose, working_dir, output_t1w_image,
                                                output_mask_image, rc, centroid_out)
       IN  /\ AfterStage(reset_origin_results, "qc_gate")
           /\ IF reset_origin_results.exc = "none"
              THEN /\ output_t1w_image' = reset_origin_results.output_image
                   /\ UNCHANGED output_mask_image
              ELSE UNCHANGED <<output_t1w_image, output_mask_image>>
    /\ UNCHANGED <<qc_data, mask_vol, qc_verdict>>
    /\ StageFrame

\* run.py:705-708
ResetOrigin(rc, centroid_out) ==
    /\ pc = "reset_origin"
    /\ LET reset_origin_results == reset_origin(args.verbose, working_dir, output_t1w_image,
                                                output_mask_image, rc, centroid_out)
       IN  /\ AfterStage(reset_origin_results, "qc_gate")
           /\ IF reset_origin_results.exc = "none"
              THEN /\ output_t1w_image' = reset_origin_results.output_image
                   /\ output_mask_image' = reset_origin_results.output_mask
              ELSE UNCHANGED <<output_t1w_image, output_mask_image>>
    /\ UNCHANGED <<qc_data, mask_vol, qc_verdict>>
    /\ StageFrame

QcGate_mut ==
    \* the QC verdict is not looked at
    /\ pc = "qc_gate"
    /\ Goto("get_mask_volume")
    /\ UNCHANGED <<image_vars, invoked>>
    /\ StageFrame

\* run.py:710-711
QcGate ==
    /\ pc = "qc_gate"
    /\ IF qc_data.qc_failure THEN Goto("except") ELSE Goto("get_mask_volume")
    /\ UNCHANGED <<image_vars, invoked>>
    /\ StageFrame

\* run.py:714
GetMaskVolume(rc, out) ==
    /\ pc = "get_mask_volume"
    /\ LET r == get_mask_volume(args.verbose, working_dir, output_mask_image, rc, out)
       IN  /\ AfterStage(r, "copy_t1w")
           /\ mask_vol' = IF r.exc = "none"
                          THEN [volume_ml |-> r.volume_ml, cmd |-> r.cmd, stdout |-> out]
                          ELSE mask_vol
    /\ UNCHANGED <<output_t1w_image, output_mask_image, qc_data, qc_verdict>>
    /\ StageFrame

\* What a file run.py wrote holds: a copy of a file of the working directory
\* of an image (run.py:660-661), or the JSON of a sidecar.
NoJson == [SkullStripped |-> None, Type |-> None, Sources |-> <<>>,
           Volume |-> Rational(0, 1), VolumeUnit |-> None]
CopyOf(entities, file) == [src |-> "_" \o entities \o ".tmpdir/" \o file, json |-> NoJson]
Put(path, content) == {c \in contents : c[1] # path} \cup {<<path, content>>}

\* The handler, run.py:715-730.  qc_data is a local of main: it is not bound
\* before the first run_hdbet has returned, None from then until get_qc_data
\* has returned, and after that the dict of the last image that got one.  The
\* working directory of an earlier image is removed when its TemporaryDirectory
\* object is finalized, which the language leaves to the implementation: its
\* QC PNG may or may not be there still (stale_alive).
HandleError(stale_alive) ==
    /\ pc = "except"
    /\ pipeline_error_list' = Append(pipeline_error_list, t1w_ds_rel_path)
    /\ LET keep == args.keep_workdir # "never"
           clash == keep /\ output_working_dir \in output_fs
           kept == IF keep /\ ~clash THEN {output_working_dir} ELSE {}
           png == /\ qc_data.bound = "dict"
                  /\ IF qc_data.img = t1w_source_entities
                     THEN qc_rgb_slices \in working_dir
                     ELSE ~qc_data.cleaned /\ stale_alive
       IN  /\ IF clash THEN Crash("FileExistsError")             \* shutil.copytree
              ELSE IF qc_data.bound = "unbound" THEN Crash("UnboundLocalError")
              ELSE IF qc_data.bound = "None" THEN Crash("TypeError")
              ELSE Goto("image")
           /\ LET new == kept \cup (IF ~clash /\ png THEN {output_qc_image} ELSE {})
              IN  output_fs' = output_fs \cup new /\ writes' = writes \cup new
           /\ contents' = IF ~clash /\ png
                          THEN Put(output_qc_image, CopyOf(qc_data.img, qc_rgb_slices))
                          ELSE contents
           /\ img_idx' = IF ~clash /\ qc_data.bound = "dict" THEN img_idx + 1 ELSE img_idx
    /\ UNCHANGED <<meta_vars, call_vars, args, input_fs, participant_sessions, ps_idx,
                   t1w_image_file_names, image_vars, invoked, summary>>

\* shutil.copyfile(src, dst) of a file of the working directory, and what
\* follows it
CopyOut(src, dst, next) ==
    /\ IF src \in working_dir
       THEN /\ output_fs' = output_fs \cup {dst}
            /\ writes' = writes \cup {dst}
            /\ contents' = Put(dst, CopyOf(t1w_source_entities, src))
            /\ Goto(next)
       ELSE Crash("FileNotFoundError") /\ UNCHANGED <<output_fs, writes, contents>>
    /\ UNCHANGED <<meta_vars, call_vars, args, input_fs, loop_vars, image_vars, invoked, summary>>

\* json.dump of a sidecar
WriteOut(dst, json, next) ==
    /\ output_fs' = output_fs \cup {dst}
    /\ writes' = writes \cup {dst}
    /\ contents' = Put(dst, [src |-> None, json |-> json])
    /\ Goto(next)
    /\ UNCHANGED <<meta_vars, call_vars, args, input_fs, loop_vars, image_vars, invoked, summary>>

\* run.py:733
CopyT1w == pc = "copy_t1w" /\ CopyOut(output_t1w_image, output_t1w_full_path, "copy_mask")
\* run.py:734
CopyMask == pc = "copy_mask" /\ CopyOut(output_mask_image, output_mask_full_path, "t1w_sidecar")
\* run.py:736-739
WriteT1wSidecar ==
    /\ pc = "t1w_sidecar"
    /\ WriteOut(output_t1w_sidecar_full_path,
                [NoJson EXCEPT !.SkullStripped = "False",
                               !.Sources = <<"bids:" \o input_dataset_name \o ":" \o t1w_ds_rel_path>>],
                "mask_sidecar")
\* run.py:741-748
WriteMaskSidecar ==
    /\ pc = "mask_sidecar"
    /\ WriteOut(output_mask_sidecar_full_path,
                [NoJson EXCEPT !.Type = "Brain",
                               !.Sources = <<"bids:" \o input_dataset_name \o ":" \o t1w_ds_rel_path,
                                             "bids::" \o output_t1w_full_path>>,
                               !.Volume = mask_vol.volume_ml,
                               !.VolumeUnit = "ml"],
                "copy_qc")
\* run.py:750-751
CopyQc == pc = "copy_qc" /\ CopyOut(qc_rgb_slices, output_qc_image, "keep_workdir")

\* run.py:753-761, and on to the next image
KeepWorkdir ==
    /\ pc = "keep_workdir"
    /\ IF args.keep_workdir = "always"
       THEN IF output_working_dir \in output_fs
            THEN /\ Crash("FileExistsError")
                 /\ UNCHANGED <<output_fs, writes, img_idx, qc_data, working_dir>>
            ELSE /\ output_fs' = output_fs \cup {output_working_dir}
                 /\ writes' = writes \cup {output_working_dir}
                 /\ qc_data' = [qc_data EXCEPT !.cleaned = TRUE]
                 /\ working_dir' = {}
                 /\ img_idx' = img_idx + 1
                 /\ Goto("image")
       ELSE /\ qc_data' = [qc_data EXCEPT !.cleaned = TRUE]
            /\ working_dir' = {}
            /\ img_idx' = img_idx + 1
            /\ Goto("image")
            /\ UNCHANGED <<output_fs, writes>>
    /\ UNCHANGED <<meta_vars, call_vars, args, input_fs, contents, participant_sessions,
                   pipeline_error_list, ps_idx, t1w_image_file_names,
                   output_t1w_image, output_mask_image, mask_vol, tool_calls, qc_verdict,
                   invoked, summary>>

\* run.py:763-772, and the process ends with status 0
PrintSummary ==
    /\ pc = "summary"
    /\ summary' = [printed |-> TRUE, errors |-> pipeline_error_list]
    /\ Exit(0)
    /\ UNCHANGED <<meta_vars, call_vars, args, input_fs, output_fs, writes, contents,
                   loop_vars, image_vars, invoked>>

\* The same command line is run again: main starts over on the datasets as the
\* last run left them.
Rerun ==
    /\ pc = "done"
    /\ writes' = {}
    /\ pc' = "args"
    /\ exit_status' = 0
    /\ uncaught' = NotRaised
    /\ participant_sessions' = <<>>
    /\ pipeline_error_list' = <<>>
    /\ ps_idx' = 1
    /\ t1w_image_file_names' = <<>>
    /\ img_idx' = 1
    /\ working_dir' = {}
    /\ output_t1w_image' = None
    /\ output_mask_image' = None
    /\ qc_data' = Unbound
    /\ mask_vol' = NoMaskVol
    /\ tool_calls' = <<>>
    /\ invoked' = FALSE
    /\ qc_verdict' = {}
    /\ summary' = [printed |-> FALSE, errors |-> <<>>]
    /\ UNCHANGED <<meta_vars, call_vars, args, input_fs, output_fs, contents>>

(***************************************************************************)
(* The command lines, environments and datasets main is started on.        *)
(***************************************************************************)
BaseEnv == [DOCKER_IMAGE_TAG |-> "v1", DOCKER_IMAGE_VERSION |-> "1.0"]
CudaEnv(v) == [DOCKER_IMAGE_TAG |-> "v1", DOCKER_IMAGE_VERSION |-> "1.0",
               CUDA_VISIBLE_DEVICES |-> v]
Select(list) == [given |-> TRUE, list |-> list]
AllOk == [p \in Participants |-> "ok"]
DefaultArgs ==
    [participant |-> Select(<<"01", "02">>), session |-> NoSelection, device |-> "cpu",
     reset_origin |-> FALSE, trim_neck |-> FALSE, keep_workdir |-> "on_error",
     verbose |-> FALSE]
DefaultConfig ==
    [environ |-> BaseEnv, description |-> AbsentFile, lock_file |-> FALSE,
     args |-> DefaultArgs, input_fs |-> [description |-> "ok", tree |-> AllOk]]

\* an output description that links the name of the input dataset to another place
ConflictingDescription ==
    [exists |-> TRUE, format |-> "foreign", Name |-> "out", BIDSVersion |-> "1.8.0",
     DatasetType |-> "derivative", GeneratedBy |-> NoGeneratedBy,
     DatasetLinks |-> [type |-> "dict", map |-> {<<input_dataset_name, FileURI("d2")>>}]]

\* --trim-neck, --reset-origin, --keep-workdir and --verbose on participant 01
FlagConfigs ==
    {[DefaultConfig EXCEPT !.args.participant = Select(<<"01">>),
                           !.args.trim_neck = t, !.args.reset_origin = r,
                           !.args.keep_workdir = k, !.args.verbose = v] :
        t \in BOOLEAN, r \in BOOLEAN, k \in {"never", "on_error", "always"}, v \in BOOLEAN}

\* what is on disk, for a participant list and for a session list
TreeConfigs ==
    {[DefaultConfig EXCEPT !.input_fs.tree = tree, !.args.participant = sel[1],
                           !.args.session = sel[2]] :
        tree \in [Participants -> Statuses],
        sel \in {<<Select(<<"01", "02">>), NoSelection>>,
                 <<NoSelection, Select(<<(<<"01", "MR1">>), <<"02", "MR1">> >>)>>}}

\* the selections, a session line without a comma among them
SelectionConfigs ==
    {[DefaultConfig EXCEPT !.args.participant = p, !.args.session = s] :
        p \in {NoSelection, Select(<<"02">>)},
        s \in {NoSelection, Select(<< <<"02", "MR1">> >>), Select(<< <<"02">> >>),
               Select(<< <<"02", "MR1">>, <<"01">> >>)}}

\* --device and CUDA_VISIBLE_DEVICES
DeviceConfigs ==
    {[DefaultConfig EXCEPT !.args.participant = Select(<<"02">>), !.args.device = d,
                           !.environ = e] :
        d \in {"cpu", "cuda", "mps"}, e \in {BaseEnv, CudaEnv(""), CudaEnv("0")}}

\* the two dataset descriptions and the lock file
DatasetConfigs ==
    {[DefaultConfig EXCEPT !.args.participant = Select(<<"02">>), !.input_fs.description = i,
                           !.description = o, !.lock_file = l] :
        i \in {"ok", "nodesc", "noname"}, o \in {AbsentFile, ConflictingDescription},
        l \in BOOLEAN}

Configurations ==
    FlagConfigs \cup TreeConfigs \cup SelectionConfigs \cup DeviceConfigs \cup DatasetConfigs

Init ==
    /\ MainStart
    /\ CallIdle
    /\ \E c \in Configurations :
        /\ environ = c.environ
        /\ description = c.description
        /\ lock_file = c.lock_file
        /\ args = c.args
        /\ input_fs = c.input_fs
    /\ output_fs = {}
    /\ contents = {}

Next ==
    \/ CheckArgs
    \/ Enumerate
    \/ UpdateMetadata
    \/ NextSession
    \/ NextImage
    \/ \E rc \in HdbetExitCodes : RunHdbet(rc)
    \/ \E rc \in TrimExitCodes : TrimNeck(rc)
    \/ \E rc \in QcExitCodes, labels \in LabelSets : GetQcDataStep(rc, labels)
    \/ \E rc \in OriginExitCodes, centroid_out \in CentroidOutputs : ResetOrigin(rc, centroid_out)
    \/ QcGate
    \/ \E rc \in {0, 1}, out \in VolumeOutputs : GetMaskVolume(rc, out)
    \/ \E stale_alive \in BOOLEAN : HandleError(stale_alive)
    \/ CopyT1w
    \/ CopyMask
    \/ WriteT1wSidecar
    \/ WriteMaskSidecar
    \/ CopyQc
    \/ KeepWorkdir
    \/ PrintSummary
    \/ Rerun

Spec == Init /\ [][Next]_vars

(***************************************************************************)
(* SpecHdbet: one invocation of scripts/run_hdbet.py.  call holds the       *)
(* command line, the listing of the input directory (file names as         *)
(* <<stem, extension>>) and where main is; ret what main printed, the exit *)
(* code of hd-bet if it was invoked, and the exit status of the script.    *)
(***************************************************************************)
\* hd_bet_cmd, run_hdbet.py:75-78
hd_bet_cmd(input_directory, device_settings, verbose) ==
    <<"hd-bet", "-i", input_directory, "-o", input_directory, "--no_bet_image",
      "--save_bet_mask">> \o device_settings \o (IF verbose THEN <<"--verbose">> ELSE <<>>)

\* run_hdbet, run_hdbet.py:65-80; returncode is the exit code hd-bet would
\* give
hdbet_py_run_hdbet(listing, input_directory, device_settings, verbose, returncode) ==
    LET nii_files == {f \in listing : f[2] = ".nii.gz"}
    IN  IF nii_files = {}
        THEN [exc |-> "none", invoked |-> FALSE, printed |-> <<"No NIfTI files found">>]
        ELSE LET r == run_command(hd_bet_cmd(input_directory, device_settings, verbose),
                                  verbose, returncode, <<>>, <<>>)
             IN  [exc |-> r.exc, invoked |-> TRUE, printed |-> r.printed]

HdbetListings ==
    {{}, {<<"notes", ".txt">>}, {<<"a", ".nii.gz">>}, {<<"a", ".nii.gz">>, <<"b", ".nii.gz">>},
     {<<"a", ".nii">>, <<"b", ".nii.gz">>}}
HdbetEnvironments == {<<>>, [CUDA_VISIBLE_DEVICES |-> ""], [CUDA_VISIBLE_DEVICES |-> "0"]}
HdbetNotRun == [exit_status |-> None, invoked |-> FALSE, returncode |-> None, printed |-> <<>>]

InitHdbet ==
    /\ MainIdle
    /\ description = AbsentFile /\ lock_file = FALSE
    /\ environ \in HdbetEnvironments
    /\ call \in {[fn |-> "run_hdbet.py", pc |-> "args", input_directory |-> "in",
                  listing |-> l, device |-> d, verbose |-> v] :
                    l \in HdbetListings, d \in {"cuda", "mps", "cpu"}, v \in BOOLEAN}
    /\ ret = HdbetNotRun

\* run_hdbet.py:114-131
HdbetCheckDevice ==
    /\ call.fn = "run_hdbet.py" /\ call.pc = "args"
    /\ IF call.device = "cuda" /\ EnvGet(environ, "CUDA_VISIBLE_DEVICES", "") = ""
       THEN /\ call' = [call EXCEPT !.pc = "done"]
            /\ ret' = [ret EXCEPT !.exit_status = 1,
                                  !.printed = <<"CUDA_VISIBLE_DEVICES is not set">>]
       ELSE /\ call' = [call EXCEPT !.pc = "try"]
            /\ UNCHANGED ret
    /\ UNCHANGED <<meta_vars, main_vars>>

\* run_hdbet.py:133-140
HdbetTry(returncode) ==
    /\ call.fn = "run_hdbet.py" /\ call.pc = "try"
    /\ LET r == hdbet_py_run_hdbet(call.listing, call.input_directory,
                                   hdbet_device_settings(call.device), call.verbose,
                                   returncode)
       IN  ret' = [exit_status |-> IF r.exc = "PipelineError" THEN 1 ELSE 0,
                   invoked |-> r.invoked,
                   returncode |-> IF r.invoked THEN returncode ELSE None,
                   printed |-> r.printed \o
                               (IF r.exc = "PipelineError" THEN <<"HD-BET processing failed.">>
                                ELSE <<"HD-BET processing completed">>)]
    /\ call' = [call EXCEPT !.pc = "done"]
    /\ UNCHANGED <<meta_vars, main_vars>>

NextHdbet ==
    \/ HdbetCheckDevice
    \/ \E returncode \in ExitCodes : HdbetTry(returncode)

SpecHdbet == InitHdbet /\ [][NextHdbet]_vars

(***************************************************************************)
(* SpecPrep: one invocation of scripts/run_prepare_input.py on the input   *)
(* dataset of the main specification.  call holds the command line, the    *)
(* dataset (tree, as input_fs.tree) and where main is; ret holds the       *)
(* locals of main, the reorientations attempted with the exit code of c3d, *)
(* and what the run printed and how it ended.                              *)
(***************************************************************************)
\* conform_image, run_prepare_input.py:64-68
conform_image(verbose, input_image, output_image, returncode) ==
    run_command(<<"c3d", input_image, "-swapdim", "LPI", "-o", output_image>>,
                verbose, returncode, <<>>, <<>>)

\* t1w_full_path, run_prepare_input.py:204
PrepFullPath(p, s, name) == input_dataset_dir \o "/" \o AnatDir(p, s) \o "/" \o name

PrepSelections ==
    {[participant |-> q[1], session |-> q[2]] :
        q \in {<<Select(<<"01", "02">>), NoSelection>>,
               <<Select(<<"02", "01">>), NoSelection>>,
               <<NoSelection, Select(<< <<"01", "MR1">>, <<"02", "MR1">> >>)>>,
               <<NoSelection, Select(<< <<"02", "MR1">>, <<"01">> >>)>>,
               <<NoSelection, NoSelection>>,
               <<Select(<<"01">>), Select(<< <<"02", "MR1">> >>)>>}}

PrepStart ==
    [participant_sessions |-> <<>>, pipeline_error_list |-> <<>>, ps_idx |-> 1,
     t1w_image_file_names |-> <<>>, img_idx |-> 1, attempts |-> <<>>,
     printed |-> FALSE, errors |-> <<>>, exit_status |-> None, exc |-> "none"]

InitPrep ==
    /\ MainIdle
    /\ MetaIdle
    /\ call \in {[fn |-> "run_prepare_input.py", pc |-> "args", args |-> a, verbose |-> v,
                  tree |-> t] :
                    a \in PrepSelections, v \in BOOLEAN, t \in [Participants -> Statuses]}
    /\ ret = PrepStart

PrepGoto(next) == call' = [call EXCEPT !.pc = next]
PrepFrame == UNCHANGED <<meta_vars, main_vars>>

\* run_prepare_input.py:135-141
PrepCheckArgs ==
    /\ call.fn = "run_prepare_input.py" /\ call.pc = "args"
    /\ IF call.args.participant.given = call.args.session.given
       THEN PrepGoto("done") /\ ret' = [ret EXCEPT !.exit_status = 1]
       ELSE PrepGoto("enumerate") /\ UNCHANGED ret
    /\ PrepFrame

\* run_prepare_input.py:143-174: the same enumeration as run.py:584-616
PrepEnumerate ==
    /\ call.fn = "run_prepare_input.py" /\ call.pc = "enumerate"
    /\ IF call.args.participant.given
       THEN LET r == ScanParticipants(call.tree, call.args.participant.list, 1,
                                      [sessions |-> <<>>, errors |-> <<>>])
            IN  ret' = [ret EXCEPT !.participant_sessions = r.sessions,
                                   !.pipeline_error_list = r.errors]
       ELSE ret' = [ret EXCEPT !.participant_sessions = call.args.session.list]
    /\ PrepGoto("session")
    /\ PrepFrame

\* the head of the loop at run_prepare_input.py:176, and lines 178-193
PrepNextSession ==
    /\ call.fn = "run_prepare_input.py" /\ call.pc = "session"
    /\ LET line == ret.participant_sessions[ret.ps_idx]
       IN  IF ret.ps_idx > Len(ret.participant_sessions)
           THEN PrepGoto("summary") /\ UNCHANGED ret
           ELSE IF Len(line) # 2                 \* "for participant,sess in"
           THEN PrepGoto("done") /\ ret' = [ret EXCEPT !.exit_status = 1, !.exc = "ValueError"]
           ELSE IF call.tree[line[1]] \in {"missing", "nosess", "noanat", "empty"}
           THEN /\ ret' = [ret EXCEPT
                              !.pipeline_error_list =
                                  Append(@, "sub-" \o line[1] \o "/ses-" \o line[2]),
                              !.ps_idx = @ + 1]
                /\ PrepGoto("session")
           ELSE /\ ret' = [ret EXCEPT !.t1w_image_file_names = ImageNames(line[1]),
                                      !.img_idx = 1]
                /\ PrepGoto("image")
    /\ PrepFrame

\* the loop at run_prepare_input.py:195 has no image left
PrepEndSession ==
    /\ call.fn = "run_prepare_input.py" /\ call.pc = "image"
    /\ ret.img_idx > Len(ret.t1w_image_file_names)
    /\ ret' = [ret EXCEPT !.ps_idx = @ + 1]
    /\ PrepGoto("session")
    /\ PrepFrame

\* run_prepare_input.py:197-212, c3d exiting with returncode
PrepConform(returncode) ==
    /\ call.fn = "run_prepare_input.py" /\ call.pc = "image"
    /\ ret.img_idx <= Len(ret.t1w_image_file_names)
    /\ LET line == ret.participant_sessions[ret.ps_idx]
           name == ret.t1w_image_file_names[ret.img_idx]
           t1w_full_path == PrepFullPath(line[1], line[2], name)
           r == conform_image(call.verbose, t1w_full_path, "out/" \o name, returncode)
       IN  ret' = [ret EXCEPT
                      !.attempts = Append(@, <<t1w_full_path, returncode>>),
                      !.pipeline_error_list =
                          IF r.exc = "PipelineError" THEN Append(@, t1w_full_path) ELSE @,
                      !.img_idx = @ + 1]
    /\ UNCHANGED call
    /\ PrepFrame

\* run_prepare_input.py:214-221, and the script ends with status 0
PrepSummary ==
    /\ call.fn = "run_prepare_input.py" /\ call.pc = "summary"
    /\ ret' = [ret EXCEPT !.printed = TRUE, !.errors = ret.pipeline_error_list,
                          !.exit_status = 0]
    /\ PrepGoto("done")
    /\ PrepFrame

NextPrep ==
    \/ PrepCheckArgs
    \/ PrepEnumerate
    \/ PrepNextSession
    \/ PrepEndSession
    \/ \E returncode \in {0, 1} : PrepConform(returncode)
    \/ PrepSummary

SpecPrep == InitPrep /\ [][NextPrep]_vars

(***************************************************************************)
(* Claims on the dataset_description.json bookkeeping, under SpecMeta.     *)
(***************************************************************************)

\* C6: GeneratedBy is idempotent under a fixed container identity: the list a
\* call of update_output_dataset computed (_get_generated_by of the value on
\* disk) is left as it is by _get_generated_by applied to it again, in every
\* environment.
C6_GeneratedByIdempotent ==
    (call.fn = "update_output_dataset" /\ ret.exc = "none")
        => LET again == _get_generated_by(environ, [type |-> "list", items |-> ret.generated_by])
           IN  again.exc = "none" /\ again.value = ret.generated_by

\* C7: a call of update_output_dataset that follows a call that returned, with
\* the same dataset name and link paths (the environment and the output directory
\* never change), leaves dataset_description.json as it is, byte for byte.
C7_SecondCallLeavesFile ==
    [][(/\ call.fn = "update_output_dataset"
        /\ ret.exc = "none"
        /\ call'.fn = "update_output_dataset"
        /\ call'.name = call.name
        /\ call'.paths = call.paths)
            => description' = description]_vars

\* the <<name, URI>> items that the link paths of a call name
PathItems(paths) ==
    {<<LinkedDatasets[paths[i]].Name, FileURI(paths[i])>> : i \in 1..Len(paths)}
\* no name with two URIs
Functional(items) == \A a, b \in items : a[1] = b[1] => a = b
MergedCall ==
    /\ call.fn = "update_output_dataset"
    /\ ret.links.exc # "not called"
    /\ call.paths.type = "list"
    /\ \A i \in 1..Len(call.paths.v) : LinkedDatasets[call.paths.v[i]].status = "ok"

C3_NonZeroExitRaises ==
    (call.fn = "run_command" /\ ret # NoRet)
        => /\ ret.returncode # 0 => ret.exc = "PipelineError"
           /\ ret.exc = "none" =>
                /\ ret.returncode = 0
                /\ ret.result.cmd_str = Join(call.cmd)
                /\ ret.result.stdout = ret.stdout
                /\ ret.result.stderr = ret.stderr

(***************************************************************************)
(* Claims on get_qc_data, under SpecQC.                                    *)
(***************************************************************************)

\* C4: when get_qc_data returns and the lstat command exited 0 (its report is
\* that of the combined label volume), the verdict depends only on the labels of
\* the volume: qc_failure is true if label 2 occurs, true if label 3 does not
\* occur, and false exactly when label 3 occurs and label 2 does not; the
\* reasons printed are those of the labels.
C4_VerdictFromLabels ==
    (call.fn = "get_qc_data" /\ ret # NoRet /\ ret.exc = "none" /\ ret.lstat_code = 0)
        => /\ ret.qc_failure = (2 \in call.labels \/ 3 \notin call.labels)
           /\ ("outside trimmed region" \in ret.reasons) = (2 \in call.labels)
           /\ ("no brain voxels" \in ret.reasons) = (3 \notin call.labels)

\* C4 witness: a volume with labels 0, 1 and 3 passed, with the QC image made.
C4_Witness ==
    /\ call.fn = "get_qc_data" /\ ret # NoRet /\ ret.exc = "none" /\ ret.lstat_code = 0
    /\ call.labels = {0, 1, 3}
    /\ ~ret.qc_failure
    /\ qc_rgb_slices \in ret.wd

(***************************************************************************)
(* Claims on the batch driver (Spec).                                      *)
(***************************************************************************)
Range(seq) == {seq[i] : i \in DOMAIN seq}
AllImages == UNION {{<<q, Entities(n)>> : n \in Range(ImageNames(q))} : q \in Participants}
ImageOutputs(img) ==
    {OutFile(AnatDir(img[1], "MR1"), img[2], suffix) :
        suffix \in {"_desc-preproc_T1w.nii.gz", "_desc-brain_mask.nii.gz",
                    "_desc-preproc_T1w.json", "_desc-brain_mask.json"}}
ImageMask(img) == OutFile(AnatDir(img[1], "MR1"), img[2], "_desc-brain_mask.nii.gz")
ImageQcPng(img) == OutFile(AnatDir(img[1], "MR1"), img[2], "_desc-qcslice_rgb.png")
InImage == pc \in {"run_hdbet", "trim_neck", "get_qc_data", "reset_origin", "qc_gate",
                   "get_mask_volume", "except", "copy_t1w", "copy_mask", "t1w_sidecar",
                   "mask_sidecar", "copy_qc", "keep_workdir"}
\* the participants whose session the command line selects
SelectedSessions ==
    IF args.participant.given
    THEN {q \in Range(args.participant.list) : input_fs.tree[q] \notin {"missing", "nosess"}}
    ELSE {line[1] : line \in {l \in Range(args.session.list) : Len(l) = 2}}
EnumeratedImages == {img \in AllImages : img[1] \in SelectedSessions /\ input_fs.tree[img[1]] = "ok"}
\* the output mask of the image was there when this run started
PriorMask(img) == ImageMask(img) \in output_fs \ writes

\* C1: a PipelineError of any stage is caught, the image is appended to the
\* error list and the loop goes on to the next image: the handler, once
\* entered, always ends in the next iteration with the image recorded.
C1_FailureCaughtBatchContinues ==
    [][pc = "except" =>
        /\ pc' = "image"
        /\ img_idx' = img_idx + 1
        /\ pipeline_error_list' = Append(pipeline_error_list, t1w_ds_rel_path)]_vars

\* C2: the preprocessed image, the mask and their sidecars of an image are
\* written in a run only if get_qc_data returned qc_failure = false for the
\* image in that run, and an image whose verdict is failure gets none of them.
C2_OutputsOnlyIfQcPassed ==
    \A img \in AllImages :
        /\ ImageOutputs(img) \cap writes # {} => <<img[2], "pass">> \in qc_verdict
        /\ <<img[2], "fail">> \in qc_verdict => ImageOutputs(img) \cap writes = {}

\* a run with --trim-neck and --reset-origin has ended in which one image
\* failed QC and another passed and got its mask
C2_Witness ==
    /\ pc = "done" /\ summary.printed
    /\ args.trim_neck /\ args.reset_origin
    /\ \E bad \in AllImages, good \in AllImages :
        /\ <<bad[2], "fail">> \in qc_verdict
        /\ ImageOutputs(bad) \cap output_fs = {}
        /\ <<good[2], "pass">> \in qc_verdict
        /\ ImageOutputs(good) \subseteq writes

\* C5: an image whose output mask was there when the run started is skipped
\* before any tool runs for it and none of its output files is written; a run
\* that finds the mask of every enumerated image invokes no tool at all.
C5_RerunInvokesNothing ==
    /\ \A img \in AllImages :
        PriorMask(img) =>
            /\ (ImageOutputs(img) \cup {ImageQcPng(img)}) \cap writes = {}
            /\ ~(InImage /\ t1w_source_entities = img[2])
    /\ (\A img \in EnumeratedImages : PriorMask(img)) => ~invoked /\ tool_calls = <<>>

\* a run over two or more images, all with their masks, has printed its summary
C5_Witness ==
    /\ pc = "done" /\ summary.printed
    /\ Cardinality(EnumeratedImages) >= 2
    /\ \A img \in EnumeratedImages : PriorMask(img)
    /\ ~invoked /\ writes = {}

ConfigError ==
    \/ ~args.participant.given /\ ~args.session.given
    \/ args.participant.given /\ args.session.given
    \/ args.device = "cuda" /\ EnvGet(environ, "CUDA_VISIBLE_DEVICES", "") = ""

\* C9: the exit status is 1 on a configuration error and 0 in every other run,
\* however many images fail; stated for the runs that got past the dataset
\* descriptions and the session list, i.e. that ended in the image loop, in
\* the summary or in the argument checks.
C9_ExitStatusOnlyOnConfigError ==
    pc = "done" /\ uncaught.at \notin {"metadata", "session"} =>
        exit_status = IF ConfigError THEN 1 ELSE 0

\* C10: every selected participant without a sub-<P> directory or without a
\* ses-* directory, and every selected session without an anat directory or
\* without a T1w image, is in the error list the summary prints.
C10_EnumerationErrorsRecorded ==
    summary.printed =>
        /\ args.participant.given =>
               \A q \in Range(args.participant.list) :
                   /\ input_fs.tree[q] \in {"missing", "nosess"} =>
                          "sub-" \o q \in Range(summary.errors)
                   /\ input_fs.tree[q] \in {"noanat", "empty"} =>
                          "sub-" \o q \o "/ses-MR1" \in Range(summary.errors)
        /\ args.session.given =>
               \A line \in Range(args.session.list) :
                   input_fs.tree[line[1]] # "ok" =>
                       "sub-" \o line[1] \o "/ses-" \o line[2] \in Range(summary.errors)

\* C11: the QC PNG does not depend on the verdict: once get_qc_data has
\* returned for an image the tiled PNG is in its working directory, and an
\* image that failed the QC gate has, when the driver is done with it, its PNG
\* under <entities>_desc-qcslice_rgb.png in the output and no image, mask or
\* sidecar written.
C11_QcPngWhateverVerdict ==
    /\ (InImage /\ qc_data.bound = "dict" /\ qc_data.img = t1w_source_entities)
           => qc_rgb_slices \in working_dir
    /\ \A img \in AllImages :
           (<<img[2], "fail">> \in qc_verdict /\ ~(InImage /\ t1w_source_entities = img[2]))
               => /\ ImageQcPng(img) \in output_fs
                  /\ ImageOutputs(img) \cap writes = {}

\* C12: working-directory retention follows --keep-workdir for every image: the
\* handler of a failed image copies the working directory to <anat>/workdir
\* exactly when the policy is on_error or always, the end of a successful image
\* copies it exactly when the policy is always, and after a successful image
\* the working directory is gone.
C12_WorkdirFollowsPolicy ==
    [][/\ pc = "except" =>
            IF args.keep_workdir \in {"on_error", "always"}
            THEN output_working_dir \in writes' /\ uncaught'.exc # "FileExistsError"
            ELSE output_working_dir \notin writes' \ writes
       /\ pc = "keep_workdir" =>
            /\ IF args.keep_workdir = "always"
               THEN output_working_dir \in writes' /\ uncaught'.exc # "FileExistsError"
               ELSE output_working_dir \notin writes' \ writes
            /\ working_dir' = {}]_vars

IsPrefix(s, t) == Len(s) <= Len(t) /\ s = SubSeq(t, 1, Len(s))
ConformExtract == <<"swapdim", "hd-bet">>
Trim == IF args.trim_neck THEN <<"trim_neck.sh", "pad">> ELSE <<>>
OriginReset == IF args.reset_origin THEN <<"centroid", "origin">> ELSE <<>>
QcRender == (IF args.trim_neck THEN <<>> ELSE <<"thresh">>) \o <<"combine", "lstat", "slices">>
Volume == <<"voxel-integral">>
VolumeAfterGate ==
    (InImage /\ "voxel-integral" \in Range(tool_calls))
        => <<t1w_source_entities, "pass">> \in qc_verdict

\* C13 as claimed: the tools of an image are invoked in the order Conform,
\* Extract, (Trim), (Origin Reset), QC, Volume, each stage after all invocations
\* of the stages before it, and the volume only after the QC gate passed.
C13_StagesInClaimedOrder ==
    /\ IsPrefix(tool_calls, ConformExtract \o Trim \o OriginReset \o QcRender \o Volume)
    /\ VolumeAfterGate

\* C13 as amended: the order is Conform, Extract, (Trim), QC rendering,
\* (Origin Reset), Volume, and the volume is measured only after the QC gate
\* passed.
C13_StagesInCodeOrder ==
    /\ IsPrefix(tool_calls, ConformExtract \o Trim \o QcRender \o OriginReset \o Volume)
    /\ VolumeAfterGate

\* an image went through every stage with --trim-neck and --reset-origin
C13_Witness ==
    /\ pc = "copy_t1w" /\ args.trim_neck /\ args.reset_origin
    /\ tool_calls = <<"swapdim", "hd-bet", "trim_neck.sh", "pad", "combine", "lstat", "slices",
                      "centroid", "origin", "voxel-integral">>

(***************************************************************************)
(* Claims on concurrent calls of update_output_dataset (SpecLock).         *)
(***************************************************************************)
\* what the description is after the call of p alone on file f
Alone(f, p) ==
    LET r == update_output_dataset(call[p].env, LinkedDatasets, f, call[p].name, call[p].paths)
    IN  IF r.wrote THEN r.file ELSE f
Turn(n) == CHOOSE p \in Procs : call[p].turn = n

\* C14: the read-modify-write sections of two processes never overlap, and
\* once both have returned the file holds what each of them wrote, GeneratedBy
\* entries and DatasetLinks, and is what the two calls give one after the other.
C14_NoOverlapNoLostUpdate ==
    /\ Cardinality({p \in Procs : InSection(p)}) <= 1
    /\ (\A p \in Procs : call[p].pc = "returned") =>
           /\ \A p \in Procs :
                  /\ ret[p].links \subseteq description.DatasetLinks.map
                  /\ ret[p].wrote =>
                         Range(ret[p].generated_by) \subseteq Range(description.GeneratedBy.items)
           /\ description = Alone(Alone(call[Turn(1)].initial, Turn(1)), Turn(2))

\* both processes have written, each its own link and its own entry
C14_Witness ==
    /\ \A p \in Procs : call[p].pc = "returned" /\ ret[p].wrote
    /\ \E p \in Procs, q \in Procs :
           /\ ret[p].links = {<<"A", FileURI("d1")>>}
           /\ ret[q].links = {<<"A", FileURI("d1")>>, <<"B", FileURI("d3")>>}
           /\ call[p].env # call[q].env
    /\ Cardinality(description.DatasetLinks.map) = 2
    /\ Len(description.GeneratedBy.items) >= 2

LinkErrors == {"ValueError", "FileNotFoundError"}

\* C20: when update_output_dataset raises because a link conflicts with an
\* existing one or a linked dataset has no description or no Name, the
\* description is, when the call is left, exactly what the call found (absent
\* if it was absent), and the lock file is gone once no call is inside the
\* locked block.
C20_FailedUpdateLeavesFileAndLock ==
    /\ \A p \in Procs :
           (call[p].pc = "raised" /\ ret[p].exc \in LinkErrors) =>
               /\ ret[p].after = call[p].file
               /\ ~ret[p].wrote
    /\ ((\E p \in Procs : ret[p].exc \in LinkErrors) /\ (\A p \in Procs : ~InSection(p)))
           => ~lock_file

\* one call failed on a conflicting link, left no file behind, and the other
\* call took the lock after it and created the description
C20_Witness ==
    \E p \in Procs, q \in Procs :
        /\ call[p].pc = "raised" /\ ret[p].exc = "ValueError" /\ call[p].turn = 1
        /\ call[p].file.exists
        /\ ret[p].after = call[p].file
        /\ call[q].pc = "returned" /\ call[q].turn = 2 /\ ret[q].wrote
        /\ ~lock_file

(***************************************************************************)
(* More claims on the batch driver (Spec).                                 *)
(***************************************************************************)

\* C15: a stage that cannot parse the output of its tool raises PipelineError,
\* which the driver catches: no exception of reset_origin or get_mask_volume
\* over an unparsable report (no CENTROID_VOX triple; no first line, no third
\* field, or a third field that is no number) ever leaves main.
C15_UnparsableOutputFailsImageOnly ==
    uncaught.at \in {"reset_origin", "get_mask_volume"}
        => uncaught.exc \notin {"IndexError", "ValueError"}

\* C16: a configuration error (selection missing or conflicting, a session
\* line that is not 'participant,session', input dataset_description.json or
\* its Name missing, a conflicting dataset link) ends the run before any tool
\* is invoked and before any per-image output is written.
C16_ConfigErrorsBeforeProcessing ==
    (pc = "done" /\ exit_status = 1 /\ uncaught.at \in {"-", "metadata", "session"})
        => ~invoked /\ writes = {}

ContentOf(path) == (CHOOSE c \in contents : c[1] = path)[2]
RatEq(a, b) == a.num * b.den = b.num * a.den
\* the integrals (mm^3) a report may state, and how c3d prints them
Integrals == {0, 1500, 3000}
Word(n) == CASE n = 0 -> "0" [] n = 1500 -> "1500" [] OTHER -> "3000"
FinalMask ==
    IF args.reset_origin THEN reset_mask ELSE IF args.trim_neck THEN tmp_mask_trim ELSE tmp_mask

InBox(x, y, ox, oy, w, h) == x >= ox /\ x < ox + w /\ y >= oy /\ y < oy + h

\* C18: for slices of sizes (w1, h1) and (w2, h2) the image written has width
\* w1 + w2 and height max(h1, h2); the first slice lies whole in the columns
\* 0..w1-1 and the second in the columns w1..w1+w2-1, and every pixel that
\* neither covers is black.
C18_TileSizeOrderAndBackground ==
    (call.fn = "tile_images" /\ ret # NoRet) =>
        LET a == call.image_files[1]
            b == call.image_files[2]
            out == ret.saved
            H == IF a.height >= b.height THEN a.height ELSE b.height
        IN  /\ out.width = a.width + b.width
            /\ out.height = H
            /\ DOMAIN out.px = Pixels(a.width + b.width, H)
            /\ \E ya \in 0..(H - a.height), yb \in 0..(H - b.height) :
                   \A xy \in DOMAIN out.px :
                       out.px[xy] =
                           IF InBox(xy[1], xy[2], 0, ya, a.width, a.height)
                           THEN a.px[<<xy[1], xy[2] - ya>>]
                           ELSE IF InBox(xy[1], xy[2], a.width, yb, b.width, b.height)
                           THEN b.px[<<xy[1] - a.width, xy[2] - yb>>]
                           ELSE black

\* a short coloured slice was tiled to the left of a taller one
C18_Witness ==
    /\ call.fn = "tile_images" /\ ret # NoRet
    /\ call.image_files[1].height = 1 /\ call.image_files[2].height = 3
    /\ call.image_files[1].width = 2 /\ call.image_files[2].width = 1
    /\ call.image_files[1].px[<<0, 0>>] # black
    /\ ret.saved.px[<<0, 0>>] = black
    /\ ret.saved.px[<<1, 2>>] = <<1, 2, 1>>
    /\ ret.saved.px[<<2, 0>>] = <<2, 1, 1>>

(***************************************************************************)
(* Claims on the image / mask pair of the per-image pipeline (Spec).       *)
(***************************************************************************)
\* the image and the mask each stage produces: run_hdbet (run.py:424-445),
\* trim_neck (run.py:459-476), reset_origin (run.py:267-290)
StagePairs ==
    {<<reoriented_image, tmp_mask>>, <<tmp_image_trim, tmp_mask_trim>>, <<reset_image, reset_mask>>}
\* the pair of the last stage the options ask for
FinalPair ==
    IF args.reset_origin THEN <<reset_image, reset_mask>>
    ELSE IF args.trim_neck THEN <<tmp_image_trim, tmp_mask_trim>>
    ELSE <<reoriented_image, tmp_mask>>
Committed(path) == \E c \in contents : c[1] = path

\* C19: the current output image and the current output mask are always the
\* two outputs of one stage (or neither is set yet); a stage that fails
\* changes neither; the pair that is copied out is the pair of the last stage
\* asked for, and an image and a mask committed for one input image are
\* copies of the two outputs of one stage.
C19_ImageAndMaskFromSameStage ==
    /\ <<output_t1w_image, output_mask_image>> \in StagePairs \cup {<<None, None>>}
    /\ pc \in {"get_mask_volume", "copy_t1w", "copy_mask"} =>
           <<output_t1w_image, output_mask_image>> = FinalPair
    /\ \A img \in AllImages :
           LET t1w == OutFile(AnatDir(img[1], "MR1"), img[2], "_desc-preproc_T1w.nii.gz")
           IN  (Committed(t1w) /\ Committed(ImageMask(img))) =>
                   \E pr \in StagePairs :
                       /\ ContentOf(t1w) = CopyOf(img[2], pr[1])
                       /\ ContentOf(ImageMask(img)) = CopyOf(img[2], pr[2])

\* an image went through trim_neck and reset_origin and its pair was copied out
C19_Witness ==
    /\ pc = "t1w_sidecar" /\ args.trim_neck /\ args.reset_origin
    /\ Committed(output_t1w_full_path) /\ Committed(output_mask_full_path)
    /\ ContentOf(output_t1w_full_path) = CopyOf(t1w_source_entities, reset_image)
    /\ ContentOf(output_mask_full_path) = CopyOf(t1w_source_entities, reset_mask)

(***************************************************************************)
(* Claims on restarting a batch (Spec).                                    *)
(***************************************************************************)
\* C21: in every state of a run, which is every point at which the run can be
\* interrupted, an image whose output mask is in the output dataset has its
\* output T1w image, both sidecars and its QC PNG there as well.
C21_MaskImpliesAllOutputs ==
    \A img \in AllImages :
        ImageMask(img) \in output_fs =>
            ImageOutputs(img) \cup {ImageQcPng(img)} \subseteq output_fs

\* C22: with --keep-workdir on_error or always no run ends in the
\* FileExistsError of copying a working directory to the output, whatever other
\* images of the session and earlier runs have preserved there; the handler and
\* the end of a successful image go on to the next image.
C22_PreservingNeverAborts ==
    ~(pc = "done" /\ uncaught.exc = "FileExistsError" /\ uncaught.at \in {"except", "keep_workdir"})

(***************************************************************************)
(* Claims on the shapes of GeneratedBy (SpecMeta).                         *)
(***************************************************************************)
\* the GeneratedBy value holds an entry of this pipeline with the tag of the
\* environment, the tag being "unknown" when DOCKER_IMAGE_TAG is not set
HasCurrentEntry(env, generated_by) ==
    \E i \in 1..Len(generated_by.items) :
        LET gb == generated_by.items[i]
        IN  /\ {"Name", "Container"} \subseteq gb.keys
            /\ gb.Name = "T1wPreprocessing"
            /\ gb.Container.Tag = EnvGet(env, "DOCKER_IMAGE_TAG", "unknown")

\* C23: when a call of update_output_dataset returns, GeneratedBy in the file on
\* disk holds an entry for the current container, whether GeneratedBy was
\* absent, a list or a single dict before; and if the merged GeneratedBy has
\* entries that the value read had not, or the merged DatasetLinks items that
\* the links read had not, the file was written.
C23_CurrentEntryOnDisk ==
    [][(call'.fn = "update_output_dataset" /\ ret'.exc = "none") =>
           /\ HasCurrentEntry(environ, description'.GeneratedBy)
           /\ (\/ ret'.generated_by # description.GeneratedBy.items
               \/ ret'.links.value # description.DatasetLinks.map) => ret'.wrote]_vars

(***************************************************************************)
(* Claims on scripts/run_hdbet.py (SpecHdbet).                             *)
(***************************************************************************)
\* C24: when run_hdbet.py has ended, verbose or not: if hd-bet was invoked and
\* exited non-zero the exit status is 1; and the exit status is 0, with
\* "HD-BET processing completed" printed, only if hd-bet exited zero or was not
\* invoked because the input directory holds no .nii.gz file.
C24_ExitStatusFollowsHdbet ==
    (call.fn = "run_hdbet.py" /\ call.pc = "done") =>
        /\ (ret.invoked /\ ret.returncode # 0) => ret.exit_status = 1
        /\ (ret.exit_status = 0) =>
               \/ ret.invoked /\ ret.returncode = 0
               \/ ~ret.invoked /\ \A f \in call.listing : f[2] # ".nii.gz"

(***************************************************************************)
(* Claims on scripts/run_prepare_input.py (SpecPrep).                      *)
(***************************************************************************)
\* the T1w images of the sessions selected: <<participant, session, name>>
PrepSelected ==
    LET ps == ret.participant_sessions
        lines == {ps[j] : j \in {k \in 1..Len(ps) : Len(ps[k]) = 2 /\ call.tree[ps[k][1]] = "ok"}}
    IN  UNION {{<<line[1], line[2], n>> : n \in Range(ImageNames(line[1]))} : line \in lines}

\* C25: when run_prepare_input.py has ended, every *_T1w.nii.gz of every
\* selected session was attempted, whatever happened to the images before it,
\* and either c3d exited zero on it or its path is in the error list the run
\* printed.
C25_EveryImageAccounted ==
    (call.fn = "run_prepare_input.py" /\ call.pc = "done") =>
        \A img \in PrepSelected :
            LET path == PrepFullPath(img[1], img[2], img[3])
            IN  /\ \E k \in 1..Len(ret.attempts) : ret.attempts[k][1] = path
                /\ \/ \E k \in 1..Len(ret.attempts) : ret.attempts[k] = <<path, 0>>
                   \/ ret.printed /\ \E k \in 1..Len(ret.errors) : ret.errors[k] = path

====
